---- MODULE Spec2Model ----
(***************************************************************************)
(* Model of the SOEM shim (src/native/soemshim-linux/soem_shim.c): the     *)
(* session lifecycle, the cyclic exchange engine, the PDO codec and the    *)
(* recovery procedure.  Every public operation is one action; the results  *)
(* of the external SOEM stack and of the allocator are inputs              *)
(* drawn from small sets.                                                  *)
(***************************************************************************)
EXTENDS Integers, Sequences, FiniteSets, TLC

VARIABLES
    live,      \* a session handle returned by soem_initialize is outstanding
    h,         \* the fields of soem_handle_t (and of its ecx context) the shim uses
    heap,      \* the heap blocks currently allocated: subset of {"handle", "IOmap"}
    ctxOpen,   \* the transport context is open (ecx_init done, ecx_close not yet)
    fault,     \* a block was freed twice, or a context closed that was not open
    last,      \* the most recent public call: arguments, result, external calls made
    peer,      \* a second session, on another adapter: [live, h]
    log_cb     \* static log_cb: a log callback is installed

vars == <<live, h, heap, ctxOpen, fault, last, peer, log_cb>>

----------------------------------------------------------------------------
(* Bounds of the model *)

MaxSlaves == 2        \* slaves discovered by ecx_config_init
MaxWkc == 3           \* largest working counter a send / receive returns

----------------------------------------------------------------------------
(* Program constants *)

IO_RX_BYTES == 20
IO_TX_BYTES == 8

SOEM_ERR_BAD_ARGS == -13
SOEM_ERR_SEND_FAIL == -11
SOEM_ERR_RECV_FAIL == -12
SOEM_ERR_WKC_LOW == -10

EC_STATE_INIT == 1
EC_STATE_SAFE_OP == 4
EC_STATE_OPERATIONAL == 8
EC_STATE_ACK == 16
EC_STATE_ERROR == 16
EC_TIMEOUTSTATE == 2000000

iomap_size == 64 * 1024
ProbeTimeout == 2000
SettleTimeout == 1000
SettleCycles == 3
EC_MAXNAME == 40

----------------------------------------------------------------------------
(* Helpers: bytes, buffers, bit operations *)

Min(a, b) == IF a < b THEN a ELSE b

Zeros(n) == [i \in 1..n |-> 0]

RECURSIVE Sum(_)
Sum(s) == IF s = <<>> THEN 0 ELSE Head(s) + Sum(Tail(s))

\* bit k (0-based) of the non-negative integer v
Bit(v, k) == (v \div (2 ^ k)) % 2

\* v & mask, for a mask that is a single bit 2^k
HasFlag(v, flag) == (v \div flag) % 2 = 1

\* x | y for operands with no common bit
BitOr(x, y) == x + y

\* the n low bytes of v, little-endian, two's complement for a negative v
\* (\div rounds down, so byte i of -2 is 254, 255, 255, ...)
LEBytes(v, n) == [i \in 1..n |-> (v \div (256 ^ (i - 1))) % 256]

\* memcpy(dst + off, src, n): dst with n bytes of src written at 0-based offset off
MemCpy(dst, off, src, n) ==
    [i \in 1..Len(dst) |-> IF i > off /\ i <= off + n THEN src[i - off] ELSE dst[i]]

\* a pointer argument: absent (NULL), or present with what it points to in bytes
NULLBUF == [ptr |-> FALSE, bytes |-> <<>>]
Buf(b) == [ptr |-> TRUE, bytes |-> b]

\* one call into the external stack or the allocator, as the shim makes it
Call(f, slave, val, tmo, rc) == [f |-> f, slave |-> slave, val |-> val, tmo |-> tmo, rc |-> rc]

----------------------------------------------------------------------------
(* The handle *)

ZeroHandle ==
    [slavecount |-> 0, Obytes |-> <<>>, Ibytes |-> <<>>,
     outputsWKC |-> 0, inputsWKC |-> 0,
     outputs |-> <<>>, inputs |-> <<>>,
     state0 |-> 0, state |-> <<>>,
     output_length |-> 0, input_length |-> 0,
     last_wkc |-> 0, last_expected_wkc |-> 0,
     ident |-> <<>>, ALstatuscode |-> <<>>]

\* ec_groupt.Obytes / Ibytes of group 0: the length of the group's regions
GroupObytes(hd) == Len(hd.outputs)
GroupIbytes(hd) == Len(hd.inputs)

\* 0-based offset of slave i's output (input) region in the group's region
OutOffset(hd, i) == Sum(SubSeq(hd.Obytes, 1, i - 1))
InOffset(hd, i) == Sum(SubSeq(hd.Ibytes, 1, i - 1))

SlaveOutputs(hd, i) == SubSeq(hd.outputs, OutOffset(hd, i) + 1, OutOffset(hd, i) + hd.Obytes[i])
SlaveInputs(hd, i) == SubSeq(hd.inputs, InOffset(hd, i) + 1, InOffset(hd, i) + hd.Ibytes[i])

----------------------------------------------------------------------------
(* PDO codec: soem_write_rxpdo *)

\* the DriveRxPDO the caller passes: Command is char[32], the numeric fields
\* have the widths of the header
RxPDO(cmd, par, vel, acc, dec, exe) ==
    [Command |-> cmd, Parameter |-> par, Velocity |-> vel,
     Acceleration |-> acc, Deceleration |-> dec, Execute |-> exe]

\* PackRx that also clears the padding after the Execute byte
PackRx_ZeroPadding(buf, in) ==
    LET b0 == MemCpy(Zeros(Len(buf)), 0, in.Command, 4)
        b1 == MemCpy(b0, 4, LEBytes(in.Parameter, 4), 4)
        b2 == MemCpy(b1, 8, LEBytes(in.Velocity, 4), 4)
        b3 == MemCpy(b2, 12, LEBytes(in.Acceleration, 2), 2)
        b4 == MemCpy(b3, 14, LEBytes(in.Deceleration, 2), 2)
    IN  MemCpy(b4, 16, <<in.Execute>>, 1)

\* the memcpy sequence of soem_write_rxpdo on a slave's output region buf
PackRx(buf, in) ==
    LET b0 == MemCpy(buf, 0, in.Command, 4)
        b1 == MemCpy(b0, 4, LEBytes(in.Parameter, 4), 4)
        b2 == MemCpy(b1, 8, LEBytes(in.Velocity, 4), 4)
        b3 == MemCpy(b2, 12, LEBytes(in.Acceleration, 2), 2)
        b4 == MemCpy(b3, 14, LEBytes(in.Deceleration, 2), 2)
    IN  MemCpy(b4, 16, <<in.Execute>>, 1)

\* slave->outputs is set by the stack's mapping for a slave that has output bytes
HasOutputs(hd, i) == hd.Obytes[i] > 0
HasInputs(hd, i) == hd.Ibytes[i] > 0

\* soem_write_rxpdo with the region tested against the 17 bytes it writes
\* instead of IO_RX_BYTES
soem_write_rxpdo_CheckWrittenOnly(hd, slave_index, in) ==
    IF ~in.ptr \/ slave_index <= 0 \/ slave_index > hd.slavecount
    THEN [h |-> hd, ret |-> 0]
    ELSE IF ~HasOutputs(hd, slave_index)
    THEN [h |-> hd, ret |-> 0]
    ELSE IF hd.Obytes[slave_index] < 17
    THEN [h |-> hd, ret |-> 0]
    ELSE LET off == OutOffset(hd, slave_index)
             n == hd.Obytes[slave_index]
             packed == PackRx(SlaveOutputs(hd, slave_index), in.bytes)
         IN  [h |-> [hd EXCEPT !.outputs = MemCpy(hd.outputs, off, packed, n)],
              ret |-> 1]

\* soem_write_rxpdo on a non-NULL handle: [h |-> the handle after, ret |-> 1 or 0]
soem_write_rxpdo(hd, slave_index, in) ==
    IF ~in.ptr \/ slave_index <= 0 \/ slave_index > hd.slavecount
    THEN [h |-> hd, ret |-> 0]
    ELSE IF ~HasOutputs(hd, slave_index)
    THEN [h |-> hd, ret |-> 0]
    ELSE IF hd.Obytes[slave_index] < IO_RX_BYTES
    THEN [h |-> hd, ret |-> 0]
    ELSE LET off == OutOffset(hd, slave_index)
             n == hd.Obytes[slave_index]
             packed == PackRx(SlaveOutputs(hd, slave_index), in.bytes)
         IN  [h |-> [hd EXCEPT !.outputs = MemCpy(hd.outputs, off, packed, n)],
              ret |-> 1]

----------------------------------------------------------------------------
(* PDO codec: soem_read_txpdo *)

\* memcpy(&pos, &buf[0], 4) into an int32_t on a little-endian host
Int32LE(b) ==
    b[1] + 256 * b[2] + 65536 * b[3] + 16777216 * (IF b[4] >= 128 THEN b[4] - 256 ELSE b[4])

\* the DriveTxPDO a caller passes before the call: every field holds v
TxPDO(v) ==
    [ActualPosition |-> v,
     AmplifiersEnabled |-> v, EndStop |-> v, ThermalProtection1 |-> v, ThermalProtection2 |-> v,
     ForceZero |-> v, MotorOn |-> v, ClosedLoop |-> v, EncoderIndex |-> v,
     EncoderValid |-> v, SearchingIndex |-> v, PositionReached |-> v, ErrorCompensation |-> v,
     EncoderError |-> v, Scanning |-> v, LeftEndStop |-> v, RightEndStop |-> v,
     ErrorLimit |-> v, SearchingOptimalFrequency |-> v, SafetyTimeout |-> v,
     ExecuteAck |-> v, EmergencyStop |-> v, PositionFail |-> v, Slot |-> v]

\* UnpackTx with the first two flags of byte 4 taken from each other's bit
UnpackTx_SwappedBits(buf) ==
    [TxPDO(0) EXCEPT !.ActualPosition = Int32LE(SubSeq(buf, 1, 4)),
                     !.AmplifiersEnabled = Bit(buf[5], 1), !.EndStop = Bit(buf[5], 0),
                     !.ThermalProtection1 = Bit(buf[5], 2), !.ThermalProtection2 = Bit(buf[5], 3),
                     !.ForceZero = Bit(buf[5], 4), !.MotorOn = Bit(buf[5], 5),
                     !.ClosedLoop = Bit(buf[5], 6), !.EncoderIndex = Bit(buf[5], 7),
                     !.EncoderValid = Bit(buf[6], 0), !.SearchingIndex = Bit(buf[6], 1),
                     !.PositionReached = Bit(buf[6], 2), !.ErrorCompensation = Bit(buf[6], 3),
                     !.EncoderError = Bit(buf[6], 4), !.Scanning = Bit(buf[6], 5),
                     !.LeftEndStop = Bit(buf[6], 6), !.RightEndStop = Bit(buf[6], 7),
                     !.ErrorLimit = Bit(buf[7], 0), !.SearchingOptimalFrequency = Bit(buf[7], 1),
                     !.SafetyTimeout = Bit(buf[7], 2), !.ExecuteAck = Bit(buf[7], 3),
                     !.EmergencyStop = Bit(buf[7], 4), !.PositionFail = Bit(buf[7], 5),
                     !.Slot = buf[8]]

\* the assignments of soem_read_txpdo from a slave's input region buf
\* (buf[k + 1] is the C buf[k]); every field of *out is assigned
UnpackTx(buf) ==
    [TxPDO(0) EXCEPT !.ActualPosition = Int32LE(SubSeq(buf, 1, 4)),
                     !.AmplifiersEnabled = Bit(buf[5], 0), !.EndStop = Bit(buf[5], 1),
                     !.ThermalProtection1 = Bit(buf[5], 2), !.ThermalProtection2 = Bit(buf[5], 3),
                     !.ForceZero = Bit(buf[5], 4), !.MotorOn = Bit(buf[5], 5),
                     !.ClosedLoop = Bit(buf[5], 6), !.EncoderIndex = Bit(buf[5], 7),
                     !.EncoderValid = Bit(buf[6], 0), !.SearchingIndex = Bit(buf[6], 1),
                     !.PositionReached = Bit(buf[6], 2), !.ErrorCompensation = Bit(buf[6], 3),
                     !.EncoderError = Bit(buf[6], 4), !.Scanning = Bit(buf[6], 5),
                     !.LeftEndStop = Bit(buf[6], 6), !.RightEndStop = Bit(buf[6], 7),
                     !.ErrorLimit = Bit(buf[7], 0), !.SearchingOptimalFrequency = Bit(buf[7], 1),
                     !.SafetyTimeout = Bit(buf[7], 2), !.ExecuteAck = Bit(buf[7], 3),
                     !.EmergencyStop = Bit(buf[7], 4), !.PositionFail = Bit(buf[7], 5),
                     !.Slot = buf[8]]

\* soem_read_txpdo on a non-NULL handle: the value returned, *out after the
\* call, and the 0-based offsets of the slave's input region that were read
soem_read_txpdo(hd, slave_index, out) ==
    IF ~out.ptr \/ slave_index <= 0 \/ slave_index > hd.slavecount
    THEN [h |-> hd, ret |-> 0, out |-> out, reads |-> {}]
    ELSE IF ~HasInputs(hd, slave_index)
    THEN [h |-> hd, ret |-> 0, out |-> out, reads |-> {}]
    ELSE IF hd.Ibytes[slave_index] < IO_TX_BYTES
    THEN [h |-> hd, ret |-> 0, out |-> out, reads |-> {}]
    ELSE [h |-> hd, ret |-> 1, out |-> Buf(UnpackTx(SlaveInputs(hd, slave_index))), reads |-> 0..7]

----------------------------------------------------------------------------
(* Cyclic exchange engine: soem_exchange_process_data *)

\* if (timeout_us < 0) timeout_us = 0
ClampTimeout(timeout_us) == IF timeout_us < 0 THEN 0 ELSE timeout_us

\* PrepareOutputs with the memset outside the test for caller bytes: the
\* region is zeroed in every cycle
PrepareOutputs_ZeroEveryCycle(region, outputs, outputs_len) ==
    IF Len(region) > 0
    THEN IF outputs.ptr /\ outputs_len > 0
         THEN MemCpy(Zeros(Len(region)), 0, outputs.bytes, Min(outputs_len, Len(region)))
         ELSE Zeros(Len(region))
    ELSE region

\* PrepareOutputs without the memset: the caller bytes are copied over what
\* the region holds
PrepareOutputs_NoZero(region, outputs, outputs_len) ==
    IF Len(region) > 0 /\ outputs.ptr /\ outputs_len > 0
    THEN MemCpy(region, 0, outputs.bytes, Min(outputs_len, Len(region)))
    ELSE region

\* the group's output region after the "prepare outputs" block
PrepareOutputs(region, outputs, outputs_len) ==
    IF Len(region) > 0 /\ outputs.ptr /\ outputs_len > 0
    THEN LET copy == Min(outputs_len, Len(region))
         IN  IF copy > 0 THEN MemCpy(Zeros(Len(region)), 0, outputs.bytes, copy)
                         ELSE Zeros(Len(region))
    ELSE region

\* int expected = (int)(g->outputsWKC * 2 + g->inputsWKC)
ExpectedWkc(hd) == hd.outputsWKC * 2 + hd.inputsWKC

\* the caller's input buffer after the "copy inputs" block
CopyInputs(inputs, inputs_len, region) ==
    IF inputs.ptr /\ inputs_len > 0 /\ Len(region) > 0
    THEN LET copy == Min(inputs_len, Len(region))
         IN  IF copy > 0 THEN Buf(MemCpy(inputs.bytes, 0, region, copy)) ELSE inputs
    ELSE inputs

\* ExchangeResult with the comparison wkc <= expected
ExchangeResult_LowInclusive(wkc, expected) ==
    IF wkc < 0 THEN SOEM_ERR_RECV_FAIL
    ELSE IF expected <= 0 THEN wkc
    ELSE IF wkc <= expected THEN SOEM_ERR_WKC_LOW
    ELSE wkc

\* ExchangeResult with the degenerate mapping tested before the receive failure
ExchangeResult_DegenerateFirst(wkc, expected) ==
    IF expected <= 0 THEN wkc
    ELSE IF wkc < 0 THEN SOEM_ERR_RECV_FAIL
    ELSE IF wkc < expected THEN SOEM_ERR_WKC_LOW
    ELSE wkc

\* ExchangeResult with the degenerate mapping reported as a failure
ExchangeResult_DegenerateFails(wkc, expected) ==
    IF wkc < 0 THEN SOEM_ERR_RECV_FAIL
    ELSE IF expected <= 0 THEN SOEM_ERR_WKC_LOW
    ELSE IF wkc < expected THEN SOEM_ERR_WKC_LOW
    ELSE wkc

\* the value returned once the receive has been made: receive failure first,
\* then the degenerate mapping, then the working-counter comparison
ExchangeResult(wkc, expected) ==
    IF wkc < 0 THEN SOEM_ERR_RECV_FAIL
    ELSE IF expected <= 0 THEN wkc
    ELSE IF wkc < expected THEN SOEM_ERR_WKC_LOW
    ELSE wkc

\* ExchangeInputs with the copy placed after the working-counter test
ExchangeInputs_AfterWkcTest(wkc, expected, inputs, inputs_len, region) ==
    IF wkc < 0 \/ (expected > 0 /\ wkc < expected) THEN inputs
    ELSE CopyInputs(inputs, inputs_len, region)

\* the caller's input buffer at return: inputs are copied after every
\* successful receive, before expected is looked at
ExchangeInputs(wkc, expected, inputs, inputs_len, region) ==
    IF wkc < 0 THEN inputs ELSE CopyInputs(inputs, inputs_len, region)

\* ExchangeSendFailed without the early return: the receive is still made
ExchangeSendFailed_StillReceives(hd, sendrc) ==
    [h |-> hd, ret |-> SOEM_ERR_SEND_FAIL,
     calls |-> <<Call("ecx_send_processdata", 0, 0, 0, sendrc),
                 Call("ecx_receive_processdata", 0, 0, 0, -1)>>]

\* the rest of the call after a send that failed
ExchangeSendFailed(hd, sendrc) ==
    [h |-> hd, ret |-> SOEM_ERR_SEND_FAIL,
     calls |-> <<Call("ecx_send_processdata", 0, 0, 0, sendrc)>>]

\* ExchangeReceive that caches the working counters of a successful receive only
ExchangeReceive_CacheOnSuccess(hd, sendrc, recvrc, frame, timeout_us) ==
    [h |-> [hd EXCEPT !.last_wkc = IF recvrc < 0 THEN @ ELSE recvrc,
                      !.last_expected_wkc = IF recvrc < 0 THEN @ ELSE ExpectedWkc(hd),
                      !.inputs = IF recvrc < 0 THEN @ ELSE frame],
     ret |-> ExchangeResult(recvrc, ExpectedWkc(hd)),
     calls |-> <<Call("ecx_send_processdata", 0, 0, 0, sendrc),
                 Call("ecx_receive_processdata", 0, 0, timeout_us, recvrc)>>]

\* the rest of the call after a send that succeeded: recvrc is the result of
\* ecx_receive_processdata, which on success has stored frame in the group's
\* input region and on failure has left the region as it was
ExchangeReceive(hd, sendrc, recvrc, frame, timeout_us) ==
    [h |-> [hd EXCEPT !.last_wkc = recvrc,
                      !.last_expected_wkc = ExpectedWkc(hd),
                      !.inputs = IF recvrc < 0 THEN @ ELSE frame],
     ret |-> ExchangeResult(recvrc, ExpectedWkc(hd)),
     calls |-> <<Call("ecx_send_processdata", 0, 0, 0, sendrc),
                 Call("ecx_receive_processdata", 0, 0, timeout_us, recvrc)>>]

\* the message soem_exchange_process_data passes to log_message (LOGE, LOGW)
\* on each of its paths, for the expected working counter and the results
\* of the send and of the receive
ExchangeLog(expected, sendrc, recvrc) ==
    IF sendrc < 0 THEN <<"LOGE ecx_send_processdata failed">>
    ELSE IF recvrc < 0 THEN <<"LOGE ecx_receive_processdata failed">>
    ELSE IF expected <= 0 THEN <<"LOGW Expected WKC (check mapping)">>
    ELSE IF recvrc < expected THEN <<"LOGE WKC low">>
    ELSE <<>>

\* log_message: the messages reach the callback when one is registered
log_message(cb, msgs) == IF cb THEN msgs ELSE <<>>

\* soem_exchange_process_data on a non-NULL handle.  sendrc, recvrc and frame
\* are what the stack answers.  The result: the handle after, the value
\* returned, the caller's input buffer after, the stack calls made, and the
\* output region as it was handed to each ecx_send_processdata
soem_exchange_process_data(hd, outputs, outputs_len, inputs, inputs_len, timeout_us, sendrc, recvrc, frame) ==
    LET tmo == ClampTimeout(timeout_us)
        h1 == [hd EXCEPT !.outputs = PrepareOutputs(hd.outputs, outputs, outputs_len)]
        r == IF sendrc < 0 THEN ExchangeSendFailed(h1, sendrc)
             ELSE ExchangeReceive(h1, sendrc, recvrc, frame, tmo)
    IN  [h |-> r.h, ret |-> r.ret, calls |-> r.calls,
         sent |-> <<h1.outputs>>,
         buf |-> IF sendrc < 0 THEN inputs
                 ELSE ExchangeInputs(recvrc, ExpectedWkc(hd), inputs, inputs_len, r.h.inputs)]

----------------------------------------------------------------------------
(* Resources: the heap blocks and the transport context *)

\* the effect of one call on the resources res = [heap, ctxOpen, fault]
ResourceStep(res, c) ==
    CASE c.f = "calloc_handle" /\ c.rc = 1 -> [res EXCEPT !.heap = @ \cup {"handle"}]
      [] c.f = "malloc_IOmap" /\ c.rc = 1 -> [res EXCEPT !.heap = @ \cup {"IOmap"}]
      [] c.f = "free_handle" ->
            [res EXCEPT !.heap = @ \ {"handle"}, !.fault = @ \/ "handle" \notin res.heap]
      [] c.f = "free_IOmap" ->
            [res EXCEPT !.heap = @ \ {"IOmap"}, !.fault = @ \/ "IOmap" \notin res.heap]
      [] c.f = "ecx_init" /\ c.rc = 1 -> [res EXCEPT !.ctxOpen = TRUE]
      [] c.f = "ecx_close" -> [res EXCEPT !.ctxOpen = FALSE, !.fault = @ \/ ~res.ctxOpen]
      [] OTHER -> res

RECURSIVE Replay(_, _)
Replay(res, calls) ==
    IF calls = <<>> THEN res ELSE Replay(ResourceStep(res, Head(calls)), Tail(calls))

----------------------------------------------------------------------------
(* Bring-up: soem_initialize *)

\* DriveRxPDO rx = { 0 }; memcpy(rx.Command, "NOP", 3)
NopCommand == [i \in 1..32 |-> CASE i = 1 -> 78 [] i = 2 -> 79 [] i = 3 -> 80 [] OTHER -> 0]
NopRx == RxPDO(NopCommand, 0, 0, 0, 0, 0)

\* StageNop without the loop: nothing is staged
StageNop_None(hd, from) == hd

\* the staging loop: soem_write_rxpdo(handle, i, &rx) for i = from..count
RECURSIVE StageNop(_, _)
StageNop(hd, from) ==
    IF from > hd.slavecount THEN hd
    ELSE StageNop(soem_write_rxpdo(hd, from, Buf(NopRx)).h, from + 1)

\* InitCleanup that forgets the IOmap when the mapping fails
InitCleanup_LeakIOmap(stage) ==
    CASE stage = "init" -> <<Call("free_handle", 0, 0, 0, 0)>>
      [] OTHER -> <<Call("ecx_close", 0, 0, 0, 0), Call("free_handle", 0, 0, 0, 0)>>

\* what a failing path releases before it returns NULL.  stage names the
\* step that failed: "init", "config", "malloc" or "map"
InitCleanup(stage) ==
    CASE stage = "init" -> <<Call("free_handle", 0, 0, 0, 0)>>
      [] stage = "config" -> <<Call("ecx_close", 0, 0, 0, 0), Call("free_handle", 0, 0, 0, 0)>>
      [] stage = "malloc" -> <<Call("ecx_close", 0, 0, 0, 0), Call("free_handle", 0, 0, 0, 0)>>
      [] stage = "map" -> <<Call("ecx_close", 0, 0, 0, 0), Call("free_IOmap", 0, 0, 0, 0),
                            Call("free_handle", 0, 0, 0, 0)>>

\* what ecx_config_init reads from the EEPROM of the slave at position i:
\* eep_man, eep_id, eep_rev and the name
BusIdentity(i) ==
    [eep_man |-> 1000 + i, eep_id |-> 2000 + i, eep_rev |-> 3000 + i, name |-> <<88, 68, 48 + i>>]

\* the handle as ecx_config_map_group leaves it: the IOmap was zeroed, shape
\* gives each slave's <<Obytes, Ibytes>>, wkcs the group's <<outputsWKC, inputsWKC>>
MappedHandle(slave_count, shape, wkcs) ==
    LET ob == [i \in 1..slave_count |-> shape[i][1]]
        ib == [i \in 1..slave_count |-> shape[i][2]]
    IN  [ZeroHandle EXCEPT !.slavecount = slave_count, !.Obytes = ob, !.Ibytes = ib,
                           !.outputsWKC = wkcs[1], !.inputsWKC = wkcs[2],
                           !.outputs = Zeros(Sum(ob)), !.inputs = Zeros(Sum(ib)),
                           !.state = [i \in 1..slave_count |-> EC_STATE_SAFE_OP],
                           !.ident = [i \in 1..slave_count |-> BusIdentity(i)],
                           !.ALstatuscode = [i \in 1..slave_count |-> 0],
                           !.last_wkc = -1, !.last_expected_wkc = 0]

\* InitBringUp that gives the session up when OPERATIONAL is not reached
InitBringUp_NeedsOperational(hd, sendrc, recvrc, frame, safeRc, opRc) ==
    [ok |-> opRc = EC_STATE_OPERATIONAL,
     h |-> hd,
     calls |-> <<Call("ecx_configdc", 0, 0, 0, 0),
                 Call("ecx_statecheck", 0, EC_STATE_SAFE_OP, EC_TIMEOUTSTATE * 4, safeRc),
                 Call("ecx_writestate", 0, EC_STATE_OPERATIONAL, 0, 0),
                 Call("ecx_statecheck", 0, EC_STATE_OPERATIONAL, EC_TIMEOUTSTATE, opRc)>>,
     sent |-> <<>>,
     proberc |-> 0]

\* soem_initialize from ecx_configdc on: stage NOP, the probe exchange, the
\* SAFE_OP wait, the OPERATIONAL write and wait, the cached sizes.  The
\* soem_read_txpdo loop after the probe only logs what it reads and changes
\* nothing.  ok: a handle is returned
InitBringUp(hd, sendrc, recvrc, frame, safeRc, opRc) ==
    LET staged == StageNop(hd, 1)
        probe == soem_exchange_process_data(staged, NULLBUF, 0, NULLBUF, 0, ProbeTimeout, sendrc, recvrc, frame)
    IN  [ok |-> TRUE,
         h |-> [probe.h EXCEPT !.state0 = opRc,
                               !.output_length = GroupObytes(probe.h),
                               !.input_length = GroupIbytes(probe.h)],
         calls |-> <<Call("ecx_configdc", 0, 0, 0, 0)>> \o probe.calls \o
                   <<Call("ecx_statecheck", 0, EC_STATE_SAFE_OP, EC_TIMEOUTSTATE * 4, safeRc),
                     Call("ecx_writestate", 0, EC_STATE_OPERATIONAL, 0, 0),
                     Call("ecx_statecheck", 0, EC_STATE_OPERATIONAL, EC_TIMEOUTSTATE, opRc)>>,
         sent |-> probe.sent,
         proberc |-> probe.ret]

\* soem_initialize.  The inputs are the allocator's and the stack's answers
soem_initialize(callocOK, initOK, slave_count, mallocOK, shape, wkcs, actual_size, sendrc, recvrc, frame, safeRc, opRc) ==
    LET fail(calls) == [ok |-> FALSE, h |-> ZeroHandle, calls |-> calls, sent |-> <<>>, proberc |-> 0]
        c1 == <<Call("calloc_handle", 0, 0, 0, IF callocOK THEN 1 ELSE 0)>>
        c2 == c1 \o <<Call("ecx_init", 0, 0, 0, IF initOK THEN 1 ELSE 0)>>
        c3 == c2 \o <<Call("ecx_config_init", 0, 0, 0, slave_count)>>
        c4 == c3 \o <<Call("malloc_IOmap", 0, 0, 0, IF mallocOK THEN 1 ELSE 0)>>
        c5 == c4 \o <<Call("ecx_config_map_group", 0, 0, 0, actual_size)>>
    IN  IF ~callocOK THEN fail(c1)
        ELSE IF ~initOK THEN fail(c2 \o InitCleanup("init"))
        ELSE IF slave_count <= 0 THEN fail(c3 \o InitCleanup("config"))
        ELSE IF ~mallocOK THEN fail(c4 \o InitCleanup("malloc"))
        ELSE IF actual_size <= 0 THEN fail(c5 \o InitCleanup("map"))
        ELSE IF actual_size > iomap_size THEN fail(c5 \o InitCleanup("map"))
        ELSE LET up == InitBringUp(MappedHandle(slave_count, shape, wkcs), sendrc, recvrc, frame, safeRc, opRc)
             IN  [ok |-> up.ok, h |-> up.h, calls |-> c5 \o up.calls, sent |-> up.sent, proberc |-> up.proberc]

----------------------------------------------------------------------------
(* Teardown: soem_shutdown *)

\* soem_shutdown that releases only when the state write went through
soem_shutdown_ReleaseOnSuccess(hd, wrc) ==
    LET h1 == [hd EXCEPT !.state0 = EC_STATE_INIT]
    IN  [h |-> h1,
         calls |-> <<Call("ecx_writestate", 0, h1.state0, 0, wrc)>> \o
                   (IF wrc > 0
                    THEN <<Call("ecx_close", 0, 0, 0, 0), Call("free_IOmap", 0, 0, 0, 0),
                           Call("free_handle", 0, 0, 0, 0)>>
                    ELSE <<>>)]

\* soem_shutdown on a non-NULL handle: the group state is set to INIT and
\* written, the transport closed, the IOmap and the handle freed.  wrc is
\* the result of the state write, which the code does not look at
soem_shutdown(hd, wrc) ==
    LET h1 == [hd EXCEPT !.state0 = EC_STATE_INIT]
    IN  [h |-> h1,
         calls |-> <<Call("ecx_writestate", 0, h1.state0, 0, wrc),
                     Call("ecx_close", 0, 0, 0, 0),
                     Call("free_IOmap", 0, 0, 0, 0),
                     Call("free_handle", 0, 0, 0, 0)>>]

----------------------------------------------------------------------------
(* Recovery: soem_try_recover *)

\* ecx_readstate: every slave's cached state is replaced by the state read
\* from the bus, slave 0 gets the lowest of them
Lowest(states) ==
    CHOOSE m \in {states[i] % 16 : i \in DOMAIN states} :
        \A i \in DOMAIN states : m <= states[i] % 16

ReadState(hd, states) == [hd EXCEPT !.state = states, !.state0 = Lowest(states)]

\* the acknowledge loop from slave `from` on: a slave whose cached state has
\* the ERROR bit gets SAFE_OP + ACK as cached state, which is written to it
RECURSIVE RecoverAck(_, _)
RecoverAck(hd, from) ==
    IF from > hd.slavecount THEN [h |-> hd, calls |-> <<>>]
    ELSE IF HasFlag(hd.state[from], EC_STATE_ERROR)
    THEN LET acked == BitOr(EC_STATE_SAFE_OP, EC_STATE_ACK)
             rest == RecoverAck([hd EXCEPT !.state[from] = acked], from + 1)
         IN  [h |-> rest.h,
              calls |-> <<Call("ecx_writestate", from, acked, 0, 0)>> \o rest.calls]
    ELSE RecoverAck(hd, from + 1)

\* RecoverSettle that gives the loop up at the first cycle that fails
RECURSIVE RecoverSettle_StopOnFailure(_, _, _)
RecoverSettle_StopOnFailure(hd, cycles, k) ==
    IF k >= SettleCycles THEN [h |-> hd, calls |-> <<>>, sent |-> <<>>]
    ELSE LET c == cycles[k + 1]
             h1 == [hd EXCEPT !.inputs = IF c.sendrc < 0 \/ c.recvrc < 0 THEN @ ELSE c.frame]
             rest == IF c.sendrc < 0 \/ c.recvrc < 0
                     THEN [h |-> h1, calls |-> <<>>, sent |-> <<>>]
                     ELSE RecoverSettle_StopOnFailure(h1, cycles, k + 1)
         IN  [h |-> rest.h,
              calls |-> <<Call("ecx_send_processdata", 0, 0, 0, c.sendrc),
                          Call("ecx_receive_processdata", 0, 0, SettleTimeout, c.recvrc)>>
                        \o rest.calls,
              sent |-> <<hd.outputs>> \o rest.sent]

\* the settle loop: k-th of the three send / receive cycles whose results
\* are ignored; cycles[k] = [sendrc, recvrc, frame] is what the stack answers
RECURSIVE RecoverSettle(_, _, _)
RecoverSettle(hd, cycles, k) ==
    IF k >= SettleCycles THEN [h |-> hd, calls |-> <<>>, sent |-> <<>>]
    ELSE LET c == cycles[k + 1]
             h1 == [hd EXCEPT !.inputs = IF c.sendrc < 0 \/ c.recvrc < 0 THEN @ ELSE c.frame]
             rest == RecoverSettle(h1, cycles, k + 1)
         IN  [h |-> rest.h,
              calls |-> <<Call("ecx_send_processdata", 0, 0, 0, c.sendrc),
                          Call("ecx_receive_processdata", 0, 0, SettleTimeout, c.recvrc)>>
                        \o rest.calls,
              sent |-> <<hd.outputs>> \o rest.sent]

\* the per-slave verification: every slave's cached state is OPERATIONAL
AllOperational(hd) == \A i \in 1..hd.slavecount : hd.state[i] = EC_STATE_OPERATIONAL

\* RecoverResult without the per-slave verification
RecoverResult_GroupOnly(hd, rc) ==
    IF rc # EC_STATE_OPERATIONAL THEN 0 ELSE 1

\* the value returned after the group-level wait returned rc
RecoverResult(hd, rc) ==
    IF rc # EC_STATE_OPERATIONAL THEN 0
    ELSE IF AllOperational(hd) THEN 1 ELSE 0

\* soem_try_recover that reads the slave states again after the group-level
\* wait and verifies what that second read finds
soem_try_recover_ReadBeforeVerify(hd, timeout_ms, read, cycles, rc, fresh) ==
    LET h1 == ReadState(hd, read)
        ack == RecoverAck(h1, 1)
        h2 == [ack.h EXCEPT !.state0 = EC_STATE_OPERATIONAL]
        settle == RecoverSettle(h2, cycles, 0)
        h3 == IF rc = EC_STATE_OPERATIONAL
              THEN ReadState(settle.h, [i \in 1..hd.slavecount |-> EC_STATE_OPERATIONAL])
              ELSE [settle.h EXCEPT !.state0 = rc]
    IN  [h |-> h3,
         ret |-> RecoverResult(h3, rc),
         verified |-> rc = EC_STATE_OPERATIONAL,
         acked |-> ack.h.state,
         calls |-> <<Call("ecx_readstate", 0, 0, 0, 0)>> \o ack.calls \o
                   <<Call("ecx_writestate", 0, h2.state0, 0, 0)>> \o settle.calls \o
                   <<Call("ecx_statecheck", 0, EC_STATE_OPERATIONAL, timeout_ms * 1000, rc)>> \o
                   (IF rc = EC_STATE_OPERATIONAL THEN <<Call("ecx_readstate", 0, 0, 0, 0)>> ELSE <<>>),
         sent |-> settle.sent]

\* soem_try_recover on a non-NULL handle.  read: the states ecx_readstate
\* finds; cycles: the answers to the settle cycles; rc: the result of the
\* group-level ecx_statecheck; fresh: the per-slave cached states after that
\* wait, when the stack's wait on slave 0 refreshes them (fresh.refresh)
soem_try_recover(hd, timeout_ms, read, cycles, rc, fresh) ==
    LET h1 == ReadState(hd, read)
        ack == RecoverAck(h1, 1)
        h2 == [ack.h EXCEPT !.state0 = EC_STATE_OPERATIONAL]
        settle == RecoverSettle(h2, cycles, 0)
        h3 == [settle.h EXCEPT !.state0 = rc,
                                !.state = IF fresh.refresh THEN fresh.states ELSE @]
    IN  [h |-> h3,
         ret |-> RecoverResult(h3, rc),
         verified |-> rc = EC_STATE_OPERATIONAL,
         acked |-> ack.h.state,
         calls |-> <<Call("ecx_readstate", 0, 0, 0, 0)>> \o ack.calls \o
                   <<Call("ecx_writestate", 0, h2.state0, 0, 0)>> \o settle.calls \o
                   <<Call("ecx_statecheck", 0, EC_STATE_OPERATIONAL, timeout_ms * 1000, rc)>>,
         sent |-> settle.sent]

----------------------------------------------------------------------------
(* Queries: slave count, process sizes, scan, error list, health *)

\* soem_get_slave_count on a non-NULL handle
soem_get_slave_count(hd) == hd.slavecount

\* soem_get_process_sizes on a non-NULL handle: outputs and inputs are the
\* two int pointers, each [ptr, bytes] with bytes the int pointed to
soem_get_process_sizes(hd, outputs, inputs) ==
    IF ~outputs.ptr \/ ~inputs.ptr
    THEN [h |-> hd, ret |-> 0, outputs |-> outputs, inputs |-> inputs]
    ELSE [h |-> hd, ret |-> 1, outputs |-> Buf(hd.output_length), inputs |-> Buf(hd.input_length)]

\* strncpy(dst, src, n) followed by dst[n] = 0, dst being char[n + 1]: the
\* characters of src, then zero bytes
StrNCpy(src, n) == [i \in 1..(n + 1) |-> IF i <= n /\ i <= Len(src) THEN src[i] ELSE 0]

\* one soem_slave_info_t as the scan loop fills it for the slave at position i
ScanEntry(hd, i) ==
    [position |-> i,
     vendor_id |-> hd.ident[i].eep_man,
     product_code |-> hd.ident[i].eep_id,
     revision |-> hd.ident[i].eep_rev,
     name |-> StrNCpy(hd.ident[i].name, EC_MAXNAME)]

\* ScanCount without the clamp to max_count
ScanCount_NoClamp(slavecount, max_count) == slavecount

\* count = slavecount; if (count > max_count) count = max_count
ScanCount(slavecount, max_count) == IF slavecount > max_count THEN max_count ELSE slavecount

\* soem_scan_slaves on a non-NULL handle: buffer.bytes is the caller's array
\* of entries, of which the first count are written
soem_scan_slaves(hd, buffer, max_count) ==
    IF ~buffer.ptr \/ max_count <= 0
    THEN [h |-> hd, ret |-> 0, buffer |-> buffer]
    ELSE LET count == ScanCount(hd.slavecount, max_count)
         IN  [h |-> hd, ret |-> count,
              buffer |-> Buf([i \in 1..Len(buffer.bytes) |->
                                 IF i <= count THEN ScanEntry(hd, i) ELSE buffer.bytes[i]])]

\* strnlen(err, maxlen)
StrNLen(err, maxlen) == Min(Len(err), maxlen)

\* soem_drain_error_list on a non-NULL handle: err is what ecx_elist2string
\* returns ([ptr, bytes], the characters before the terminator); buf.bytes is
\* the caller's buffer of buf_sz bytes
soem_drain_error_list(hd, buf, buf_sz, err) ==
    IF ~buf.ptr \/ buf_sz <= 0
    THEN [h |-> hd, ret |-> 0, buf |-> buf, calls |-> <<>>]
    ELSE IF ~err.ptr
    THEN [h |-> hd, ret |-> 1, buf |-> Buf(MemCpy(buf.bytes, 0, <<0>>, 1)),
          calls |-> <<Call("ecx_elist2string", 0, 0, 0, 0)>>]
    ELSE LET n == StrNLen(err.bytes, buf_sz - 1)
         IN  [h |-> hd, ret |-> 1,
              buf |-> Buf(MemCpy(MemCpy(buf.bytes, 0, err.bytes, n), n, <<0>>, 1)),
              calls |-> <<Call("ecx_elist2string", 0, 0, 0, 1)>>]

\* the soem_health_t of a caller before the call: every field holds v
Health(v) ==
    [slaves_found |-> v, group_expected_wkc |-> v, last_wkc |-> v, bytes_out |-> v,
     bytes_in |-> v, slaves_op |-> v, al_status_code |-> v]

\* ecx_readstate as soem_get_health uses it: the cached state and AL status
\* code of every slave are replaced by what the bus reports
ReadStateAL(hd, states, al) == [ReadState(hd, states) EXCEPT !.ALstatuscode = al]

\* CountOperational on the state without its ERROR flag
CountOperational_IgnoreFlag(hd) == Cardinality({i \in 1..hd.slavecount : hd.state[i] % EC_STATE_ERROR = EC_STATE_OPERATIONAL})

\* the number of slaves whose cached state is exactly OPERATIONAL
CountOperational(hd) == Cardinality({i \in 1..hd.slavecount : hd.state[i] = EC_STATE_OPERATIONAL})

\* soem_get_health on a non-NULL handle.  read and al are the states and
\* the AL status codes ecx_readstate finds
soem_get_health(hd, out, read, al) ==
    IF ~out.ptr
    THEN [h |-> hd, ret |-> 0, out |-> out, calls |-> <<>>]
    ELSE LET h1 == ReadStateAL(hd, read, al)
         IN  [h |-> h1, ret |-> 1,
              out |-> Buf([Health(0) EXCEPT
                              !.slaves_found = hd.slavecount,
                              !.group_expected_wkc = hd.outputsWKC * 2 + hd.inputsWKC,
                              !.last_wkc = hd.last_wkc,
                              !.bytes_out = GroupObytes(hd),
                              !.bytes_in = GroupIbytes(hd),
                              !.slaves_op = CountOperational(h1),
                              !.al_status_code = IF h1.slavecount >= 1 THEN h1.ALstatuscode[1] ELSE 0]),
              calls |-> <<Call("ecx_readstate", 0, 0, 0, 0)>>]

\* SentinelOf with the legacy value -1 for the exchange
SentinelOf_Legacy(f) == IF f = "soem_exchange_process_data" THEN -1 ELSE 0

\* what a public function returns for a NULL handle, before anything else:
\* SOEM_ERR_BAD_ARGS from the exchange, 0 from the others (soem_shutdown
\* returns nothing)
SentinelOf(f) == IF f = "soem_exchange_process_data" THEN SOEM_ERR_BAD_ARGS ELSE 0

\* the public functions that take a handle
HandleFunctions ==
    {"soem_shutdown", "soem_get_slave_count", "soem_get_process_sizes", "soem_scan_slaves",
     "soem_read_txpdo", "soem_write_rxpdo", "soem_exchange_process_data", "soem_try_recover",
     "soem_get_health", "soem_drain_error_list"}

----------------------------------------------------------------------------
(* The legacy variant, src/native/soemshim/soem_shim.c: the functions it   *)
(* has in common with the extended variant, on the fields of the handle    *)
(* that both variants have                                                  *)

\* the group's output region after the copy of the caller's bytes: no
\* memset, the bytes after the copy keep what they held
Legacy_PrepareOutputs(region, outputs, outputs_length) ==
    IF outputs.ptr /\ outputs_length > 0 /\ Len(region) > 0
    THEN LET copy == IF outputs_length > Len(region) THEN Len(region) ELSE outputs_length
         IN  MemCpy(region, 0, outputs.bytes, copy)
    ELSE region

\* Legacy_CopyInputs that copies only into a buffer no longer than the region
Legacy_CopyInputs_ExactOnly(inputs, inputs_length, region) ==
    IF inputs.ptr /\ inputs_length > 0 /\ Len(region) > 0 /\ inputs_length <= Len(region)
    THEN Buf(MemCpy(inputs.bytes, 0, region, inputs_length))
    ELSE inputs

\* the caller's input buffer after the copy, which is made whatever the
\* receive returned
Legacy_CopyInputs(inputs, inputs_length, region) ==
    IF inputs.ptr /\ inputs_length > 0 /\ Len(region) > 0
    THEN LET copy == IF inputs_length > Len(region) THEN Len(region) ELSE inputs_length
         IN  Buf(MemCpy(inputs.bytes, 0, region, copy))
    ELSE inputs

\* the legacy soem_exchange_process_data on a non-NULL handle: the result
\* of the send when it is negative, else that of the receive, to which
\* the timeout is passed as given
Legacy_soem_exchange_process_data(hd, outputs, outputs_length, inputs, inputs_length, timeout, sendrc, recvrc, frame) ==
    LET h1 == [hd EXCEPT !.outputs = Legacy_PrepareOutputs(hd.outputs, outputs, outputs_length)]
        h2 == [h1 EXCEPT !.inputs = IF recvrc < 0 THEN @ ELSE frame]
    IN  IF sendrc < 0
        THEN [h |-> h1, ret |-> sendrc,
              calls |-> <<Call("ecx_send_processdata", 0, 0, 0, sendrc)>>,
              sent |-> <<h1.outputs>>, buf |-> inputs]
        ELSE [h |-> h2, ret |-> recvrc,
              calls |-> <<Call("ecx_send_processdata", 0, 0, 0, sendrc),
                          Call("ecx_receive_processdata", 0, 0, timeout, recvrc)>>,
              sent |-> <<h1.outputs>>,
              buf |-> Legacy_CopyInputs(inputs, inputs_length, h2.inputs)]

\* the legacy soem_get_slave_count on a non-NULL handle
Legacy_soem_get_slave_count(hd) == hd.slavecount

\* the legacy soem_get_process_sizes on a non-NULL handle
Legacy_soem_get_process_sizes(hd, outputs, inputs) ==
    IF ~outputs.ptr \/ ~inputs.ptr
    THEN [h |-> hd, ret |-> 0, outputs |-> outputs, inputs |-> inputs]
    ELSE [h |-> hd, ret |-> 1, outputs |-> Buf(hd.output_length), inputs |-> Buf(hd.input_length)]

\* the legacy soem_scan_slaves on a non-NULL handle
Legacy_soem_scan_slaves(hd, buffer, max_count) ==
    IF ~buffer.ptr \/ max_count <= 0
    THEN [h |-> hd, ret |-> 0, buffer |-> buffer]
    ELSE LET count == IF hd.slavecount > max_count THEN max_count ELSE hd.slavecount
         IN  [h |-> hd, ret |-> count,
              buffer |-> Buf([i \in 1..Len(buffer.bytes) |->
                                 IF i <= count
                                 THEN [position |-> i,
                                       vendor_id |-> hd.ident[i].eep_man,
                                       product_code |-> hd.ident[i].eep_id,
                                       revision |-> hd.ident[i].eep_rev,
                                       name |-> StrNCpy(hd.ident[i].name, EC_MAXNAME)]
                                 ELSE buffer.bytes[i]])]

\* what a legacy function returns for a NULL handle
Legacy_SentinelOf(f) == IF f = "soem_exchange_process_data" THEN -1 ELSE 0

----------------------------------------------------------------------------
(* The inputs the actions draw from *)

\* <<Obytes, Ibytes>> of a slave: the drive (20 / 8), and a slave whose
\* regions are too short for the records
Drive == <<20, 8>>
Short == <<16, 4>>

\* the mappings of n slaves: drives, or a short slave followed by drives
Mappings(n) ==
    {[i \in 1..n |-> Drive], [i \in 1..n |-> IF i = 1 THEN Short ELSE Drive]}

MappedSize(shape) == Sum([i \in DOMAIN shape |-> shape[i][1] + shape[i][2]])
InputSize(shape) == Sum([i \in DOMAIN shape |-> shape[i][2]])

\* <<outputsWKC, inputsWKC>> of the group: expected WKC 0, 2 and 3
GroupWkcs == {<<0, 0>>, <<1, 0>>, <<1, 1>>}

\* the frames a receive can store in an input region of n bytes
FrameA(n) == [i \in 1..n |-> (i * 37 + 5) % 256]
FrameB(n) == [i \in 1..n |-> 255 - i]

\* the working counters a successful receive returns
RecvWkcs == {0, MaxWkc - 1, MaxWkc}

\* what the stack answers to one send / receive cycle on an input region of
\* n bytes: the send fails, the receive fails, or a frame comes with a
\* working counter
CycleAnswers(n) ==
    {[sendrc |-> -1, recvrc |-> -1, frame |-> FrameA(n)],
     [sendrc |-> 1, recvrc |-> -1, frame |-> FrameA(n)],
     [sendrc |-> 1, recvrc |-> MaxWkc, frame |-> FrameB(n)]}
    \cup {[sendrc |-> 1, recvrc |-> w, frame |-> FrameA(n)] : w \in RecvWkcs}

\* the states a slave is found in: SAFE_OP and OPERATIONAL, each with or
\* without the ERROR flag
BusStates ==
    {EC_STATE_SAFE_OP, EC_STATE_OPERATIONAL,
     BitOr(EC_STATE_SAFE_OP, EC_STATE_ERROR), BitOr(EC_STATE_OPERATIONAL, EC_STATE_ERROR)}

\* the states a wait on the group (ecx_statecheck on slave 0) returns
GroupStates == {EC_STATE_SAFE_OP, EC_STATE_OPERATIONAL}

\* caller output arguments for a group output region of L bytes: absent,
\* present with length 0, a short payload, an all-zero payload of the
\* region's length, a payload longer than the region
OutputArgs(L) ==
    { [buf |-> NULLBUF, len |-> 0],
      [buf |-> Buf(<<170, 187, 204>>), len |-> 0],
      [buf |-> Buf(<<170, 187, 204>>), len |-> 3],
      [buf |-> Buf(Zeros(L)), len |-> L],
      [buf |-> Buf([i \in 1..(L + 2) |-> 255]), len |-> L + 2] }

\* caller input arguments for a group input region of L bytes
InputArgs(L) ==
    { [buf |-> NULLBUF, len |-> 0],
      [buf |-> Buf([i \in 1..3 |-> 238]), len |-> 3],
      [buf |-> Buf([i \in 1..(L + 2) |-> 238]), len |-> L + 2] }

Timeouts == {-1, 500}

\* a command with every field set, Execute = 1
MoveCommand == [i \in 1..32 |-> CASE i = 1 -> 68 [] i = 2 -> 80 [] i = 3 -> 79 [] i = 4 -> 83 [] OTHER -> 0]
MoveRx == RxPDO(MoveCommand, -2, 2000000000, 258, 65535, 1)

\* the answers of the allocator and of the stack to one soem_initialize
InitAnswer(callocOK, initOK, slave_count, mallocOK, shape, wkcs, actual_size, cycle, safeRc, opRc) ==
    [callocOK |-> callocOK, initOK |-> initOK, slave_count |-> slave_count,
     mallocOK |-> mallocOK, shape |-> shape, wkcs |-> wkcs, actual_size |-> actual_size,
     cycle |-> cycle, safeRc |-> safeRc, opRc |-> opRc]

\* bring-up goes through, for every mapping, with a quiet bus
GoodInitAnswers ==
    {InitAnswer(TRUE, TRUE, Len(shape), TRUE, shape, wkcs, MappedSize(shape),
                [sendrc |-> 1, recvrc |-> MaxWkc, frame |-> FrameA(InputSize(shape))],
                EC_STATE_SAFE_OP, EC_STATE_OPERATIONAL)
        : shape \in UNION {Mappings(n) : n \in 1..MaxSlaves}, wkcs \in GroupWkcs}

----------------------------------------------------------------------------
(* The state machine *)

\* IOmapBlock with one static process image for every session
IOmapBlock_Static(s) == 0

\* the block handle->IOmap of session s points to: soem_initialize
\* allocates one for each handle it returns
IOmapBlock(s) == s

\* the handle th of the live session t after a call on session s left hn in
\* the handle of s: t sees what s wrote exactly when their process images
\* are the same block
OtherAfter(s, t, tlive, th, hn) ==
    IF tlive /\ IOmapBlock(s) = IOmapBlock(t)
    THEN [th EXCEPT !.outputs = hn.outputs, !.inputs = hn.inputs]
    ELSE th

NoCall == [op |-> "none", args |-> <<>>, ret |-> 0, calls |-> <<>>, sent |-> <<>>, buf |-> NULLBUF]

Resources == [heap |-> heap, ctxOpen |-> ctxOpen, fault |-> fault]

Init ==
    /\ live = FALSE
    /\ h = ZeroHandle
    /\ heap = {}
    /\ ctxOpen = FALSE
    /\ fault = FALSE
    /\ last = NoCall
    /\ peer = [live |-> FALSE, h |-> ZeroHandle]
    /\ log_cb = FALSE

ApplyResources(calls) ==
    \E res \in {Replay(Resources, calls)} :
        /\ heap' = res.heap
        /\ ctxOpen' = res.ctxOpen
        /\ fault' = res.fault

\* soem_initialize(ifname), when no session is outstanding, with the
\* allocator and the stack answering a
InitializeWith(a) ==
    /\ ~live
    /\ \E r \in {soem_initialize(a.callocOK, a.initOK, a.slave_count, a.mallocOK, a.shape, a.wkcs, a.actual_size, a.cycle.sendrc, a.cycle.recvrc, a.cycle.frame, a.safeRc, a.opRc)} :
           /\ live' = r.ok
           /\ h' = r.h
           /\ ApplyResources(r.calls)
           /\ last' = [op |-> "initialize", args |-> a,
                       ret |-> IF r.ok THEN 1 ELSE 0, calls |-> r.calls, sent |-> r.sent,
                       buf |-> NULLBUF]
           /\ peer' = [peer EXCEPT !.h = IF r.ok THEN OtherAfter(1, 2, peer.live, @, r.h) ELSE @]
           /\ UNCHANGED log_cb

\* soem_shutdown(handle) on the live session
Shutdown ==
    /\ live
    /\ \E wrc \in {0, 1} :
       \E r \in {soem_shutdown(h, wrc)} :
              /\ live' = FALSE
              /\ h' = r.h
              /\ ApplyResources(r.calls)
              /\ last' = [op |-> "shutdown", args |-> [wrc |-> wrc], ret |-> 0,
                          calls |-> r.calls, sent |-> <<>>, buf |-> NULLBUF]
              /\ UNCHANGED <<peer, log_cb>>

\* soem_write_rxpdo(handle, slave_index, in) on the live session
WriteRxpdoWith(slave_index, in) ==
    /\ live
    /\ \E r \in {soem_write_rxpdo(h, slave_index, in)} :
           /\ h' = r.h
           /\ last' = [op |-> "write_rxpdo",
                       args |-> [slave_index |-> slave_index, in |-> in],
                       ret |-> r.ret, calls |-> <<>>, sent |-> <<>>, buf |-> NULLBUF]
           /\ peer' = [peer EXCEPT !.h = OtherAfter(1, 2, peer.live, @, r.h)]
           /\ UNCHANGED <<live, heap, ctxOpen, fault, log_cb>>

\* soem_exchange_process_data(handle, outputs, outputs_len, inputs, inputs_len, timeout_us)
\* on the live session, the stack answering ans
ExchangeWith(out, in, timeout_us, ans) ==
    /\ live
    /\ \E r \in {soem_exchange_process_data(h, out.buf, out.len, in.buf, in.len, timeout_us, ans.sendrc, ans.recvrc, ans.frame)} :
           /\ h' = r.h
           /\ last' = [op |-> "exchange",
                       args |-> [outputs |-> out.buf, outputs_len |-> out.len,
                                 inputs |-> in.buf, inputs_len |-> in.len,
                                 timeout_us |-> timeout_us,
                                 sendrc |-> ans.sendrc, recvrc |-> ans.recvrc],
                       ret |-> r.ret, calls |-> r.calls, sent |-> r.sent, buf |-> r.buf]
           /\ peer' = [peer EXCEPT !.h = OtherAfter(1, 2, peer.live, @, r.h)]
           /\ UNCHANGED <<live, heap, ctxOpen, fault, log_cb>>

\* soem_try_recover(handle, timeout_ms) on the live session
TryRecoverWith(timeout_ms, read, cycles, rc, fresh) ==
    /\ live
    /\ \E r \in {soem_try_recover(h, timeout_ms, read, cycles, rc, fresh)} :
           /\ h' = r.h
           /\ last' = [op |-> "try_recover",
                       args |-> [timeout_ms |-> timeout_ms, read |-> read, rc |-> rc,
                                 refresh |-> fresh.refresh, acked |-> r.acked,
                                 verified |-> r.verified],
                       ret |-> r.ret, calls |-> r.calls, sent |-> r.sent, buf |-> NULLBUF]
           /\ peer' = [peer EXCEPT !.h = OtherAfter(1, 2, peer.live, @, r.h)]
           /\ UNCHANGED <<live, heap, ctxOpen, fault, log_cb>>

\* a call that changes neither the session nor its resources: [op, args,
\* ret, calls, buf] is what the caller and the stack saw of it
QueryWith(op, args, ret, calls, buf) ==
    /\ last' = [op |-> op, args |-> args, ret |-> ret, calls |-> calls, sent |-> <<>>, buf |-> buf]
    /\ UNCHANGED <<live, heap, ctxOpen, fault, peer, log_cb>>

\* soem_read_txpdo(handle, slave_index, out) on the live session
ReadTxpdoWith(slave_index, out) ==
    /\ live
    /\ \E r \in {soem_read_txpdo(h, slave_index, out)} :
           /\ h' = r.h
           /\ QueryWith("read_txpdo", [slave_index |-> slave_index, out |-> out, reads |-> r.reads],
                        r.ret, <<>>, r.out)

\* soem_scan_slaves(handle, buffer, max_count) on the live session
ScanSlavesWith(buffer, max_count) ==
    /\ live
    /\ \E r \in {soem_scan_slaves(h, buffer, max_count)} :
           /\ h' = r.h
           /\ QueryWith("scan_slaves", [buffer |-> buffer, max_count |-> max_count],
                        r.ret, <<>>, r.buffer)

\* soem_get_slave_count(handle) on the live session
GetSlaveCount ==
    /\ live
    /\ h' = h
    /\ QueryWith("get_slave_count", <<>>, soem_get_slave_count(h), <<>>, NULLBUF)

\* soem_get_process_sizes(handle, outputs, inputs) on the live session
GetProcessSizesWith(outputs, inputs) ==
    /\ live
    /\ \E r \in {soem_get_process_sizes(h, outputs, inputs)} :
           /\ h' = r.h
           /\ QueryWith("get_process_sizes", [outputs |-> outputs, inputs |-> inputs],
                        r.ret, <<>>, Buf(<<r.outputs, r.inputs>>))

\* soem_drain_error_list(handle, buf, buf_sz) on the live session, the
\* stack's error list holding err
DrainErrorListWith(buf, buf_sz, err) ==
    /\ live
    /\ \E r \in {soem_drain_error_list(h, buf, buf_sz, err)} :
           /\ h' = r.h
           /\ QueryWith("drain_error_list", [buf |-> buf, buf_sz |-> buf_sz, err |-> err],
                        r.ret, r.calls, r.buf)

\* soem_get_health(handle, out) on the live session, the bus reporting the
\* states read and the AL status codes al
GetHealthWith(out, read, al) ==
    /\ live
    /\ \E r \in {soem_get_health(h, out, read, al)} :
           /\ h' = r.h
           /\ QueryWith("get_health", [out |-> out, read |-> read, al |-> al],
                        r.ret, r.calls, r.out)

\* f(NULL, ...): a public function called without a handle, at any time
NullHandleWith(f) ==
    /\ h' = h
    /\ QueryWith(f, [handle |-> FALSE], SentinelOf(f), <<>>, NULLBUF)

\* one exchange call made on the live session with the extended variant
\* and, with the same session state, arguments and answers of the stack,
\* with the legacy variant, whose results are kept in args.legacy
BothExchangeWith(out, in, timeout_us, ans) ==
    /\ live
    /\ \E r \in {soem_exchange_process_data(h, out.buf, out.len, in.buf, in.len, timeout_us, ans.sendrc, ans.recvrc, ans.frame)},
          lg \in {Legacy_soem_exchange_process_data(h, out.buf, out.len, in.buf, in.len, timeout_us, ans.sendrc, ans.recvrc, ans.frame)} :
           /\ h' = r.h
           /\ last' = [op |-> "exchange",
                       args |-> [outputs |-> out.buf, outputs_len |-> out.len,
                                 inputs |-> in.buf, inputs_len |-> in.len,
                                 timeout_us |-> timeout_us,
                                 sendrc |-> ans.sendrc, recvrc |-> ans.recvrc,
                                 legacy |-> [ret |-> lg.ret, sent |-> lg.sent, buf |-> lg.buf]],
                       ret |-> r.ret, calls |-> r.calls, sent |-> r.sent, buf |-> r.buf]
           /\ peer' = [peer EXCEPT !.h = OtherAfter(1, 2, peer.live, @, r.h)]
           /\ UNCHANGED <<live, heap, ctxOpen, fault, log_cb>>

\* soem_scan_slaves of both variants on the live session
BothScanSlavesWith(buffer, max_count) ==
    /\ live
    /\ \E r \in {soem_scan_slaves(h, buffer, max_count)}, lg \in {Legacy_soem_scan_slaves(h, buffer, max_count)} :
           /\ h' = r.h
           /\ QueryWith("scan_slaves",
                        [buffer |-> buffer, max_count |-> max_count,
                         legacy |-> [ret |-> lg.ret, buf |-> lg.buffer]],
                        r.ret, <<>>, r.buffer)

\* soem_get_slave_count of both variants on the live session
BothGetSlaveCount ==
    /\ live
    /\ h' = h
    /\ QueryWith("get_slave_count", [legacy |-> [ret |-> Legacy_soem_get_slave_count(h), buf |-> NULLBUF]],
                 soem_get_slave_count(h), <<>>, NULLBUF)

\* soem_get_process_sizes of both variants on the live session
BothGetProcessSizesWith(outputs, inputs) ==
    /\ live
    /\ \E r \in {soem_get_process_sizes(h, outputs, inputs)}, lg \in {Legacy_soem_get_process_sizes(h, outputs, inputs)} :
           /\ h' = r.h
           /\ QueryWith("get_process_sizes",
                        [outputs |-> outputs, inputs |-> inputs,
                         legacy |-> [ret |-> lg.ret, buf |-> Buf(<<lg.outputs, lg.inputs>>)]],
                        r.ret, <<>>, Buf(<<r.outputs, r.inputs>>))

\* f(NULL, ...) of both variants
BothNullHandleWith(f) ==
    /\ h' = h
    /\ QueryWith(f, [handle |-> FALSE, legacy |-> [ret |-> Legacy_SentinelOf(f), buf |-> NULLBUF]],
                 SentinelOf(f), <<>>, NULLBUF)

\* soem_set_log_callback(cb): cb installed (TRUE) or removed (NULL)
SetLogCallback(cb) ==
    /\ log_cb' = cb
    /\ last' = [op |-> "set_log_callback", args |-> [cb |-> cb], ret |-> 0, calls |-> <<>>,
                sent |-> <<>>, buf |-> NULLBUF]
    /\ UNCHANGED <<live, h, heap, ctxOpen, fault, peer>>

----------------------------------------------------------------------------
(* The cyclic exchange: a session is brought up on a quiet bus, then the    *)
(* caller stages records and exchanges, with every argument and every       *)
(* answer of the stack                                                      *)

ExInitialize == \E a \in GoodInitAnswers : InitializeWith(a)

ExWriteRxpdo == \E slave_index \in 1..h.slavecount : WriteRxpdoWith(slave_index, Buf(MoveRx))

\* the arguments of the exchange calls: the output block, the input block and
\* the timeout clamp read disjoint arguments, and each is varied with the
\* other two at their plainest (no buffer, a positive timeout)
ExchangeArgs(Lo, Li) ==
    {[out |-> o, in |-> [buf |-> NULLBUF, len |-> 0], timeout_us |-> 500] : o \in OutputArgs(Lo)}
    \cup {[out |-> [buf |-> NULLBUF, len |-> 0], in |-> i, timeout_us |-> 500] : i \in InputArgs(Li)}
    \cup {[out |-> [buf |-> NULLBUF, len |-> 0], in |-> [buf |-> NULLBUF, len |-> 0], timeout_us |-> t] : t \in Timeouts}

ExExchange ==
    \E a \in ExchangeArgs(GroupObytes(h), GroupIbytes(h)), ans \in CycleAnswers(GroupIbytes(h)) :
        ExchangeWith(a.out, a.in, a.timeout_us, ans)

ExchangeNext ==
    \/ ExInitialize
    \/ ExWriteRxpdo
    \/ ExExchange
    \/ Shutdown

SpecExchange == Init /\ [][ExchangeNext]_vars

----------------------------------------------------------------------------
(* The session lifecycle: every answer of the allocator and of the stack   *)
(* to soem_initialize, then soem_shutdown                                  *)

\* a quiet cycle, for the answers that are not looked at
QuietCycle(n) == [sendrc |-> 1, recvrc |-> MaxWkc, frame |-> FrameA(n)]

AllMappings == UNION {Mappings(n) : n \in 1..MaxSlaves}

\* the answers with which soem_initialize fails: no handle, no transport, no
\* slave, no IOmap, a mapped size that is <= 0 or above the allocated bound
FailingInitAnswers ==
    {InitAnswer(FALSE, FALSE, 0, FALSE, <<>>, <<0, 0>>, 0, QuietCycle(0), EC_STATE_SAFE_OP, EC_STATE_SAFE_OP),
     InitAnswer(TRUE, FALSE, 0, FALSE, <<>>, <<0, 0>>, 0, QuietCycle(0), EC_STATE_SAFE_OP, EC_STATE_SAFE_OP)}
    \cup {InitAnswer(TRUE, TRUE, n, FALSE, <<>>, <<0, 0>>, 0, QuietCycle(0), EC_STATE_SAFE_OP, EC_STATE_SAFE_OP)
            : n \in -1..0}
    \cup {InitAnswer(TRUE, TRUE, Len(shape), FALSE, shape, <<0, 0>>, 0, QuietCycle(0), EC_STATE_SAFE_OP, EC_STATE_SAFE_OP)
            : shape \in AllMappings}
    \cup {InitAnswer(TRUE, TRUE, Len(shape), TRUE, shape, <<1, 1>>, size, QuietCycle(0), EC_STATE_SAFE_OP, EC_STATE_SAFE_OP)
            : shape \in AllMappings, size \in {-1, 0, iomap_size + 1}}

\* the answers with which the mapping of shape goes through: a mapped size
\* up to the allocated bound, every answer to the probe cycle and to the
\* two waits
PassingInitAnswers(shape) ==
    {InitAnswer(TRUE, TRUE, Len(shape), TRUE, shape, wkcs, size, cycle, safeRc, opRc)
        : wkcs \in GroupWkcs, size \in {MappedSize(shape), iomap_size},
          cycle \in CycleAnswers(InputSize(shape)),
          safeRc \in GroupStates, opRc \in GroupStates}

LcInitialize ==
    \E a \in FailingInitAnswers \cup UNION {PassingInitAnswers(shape) : shape \in AllMappings} :
        InitializeWith(a)

LifecycleNext ==
    \/ LcInitialize
    \/ Shutdown

SpecLifecycle == Init /\ [][LifecycleNext]_vars

----------------------------------------------------------------------------
(* Recovery: a session is brought up on a quiet bus, then the caller       *)
(* recovers, the bus answering with every combination of slave states      *)

RcInitialize == \E a \in {g \in GoodInitAnswers : g.wkcs = <<1, 1>>} : InitializeWith(a)

\* the answers to the three settle cycles: all fail, all succeed, or a
\* failed receive, a failed send and a good cycle
SettleAnswers(n) ==
    LET bad == [sendrc |-> -1, recvrc |-> -1, frame |-> FrameA(n)]
        norecv == [sendrc |-> 1, recvrc |-> -1, frame |-> FrameA(n)]
        good == [sendrc |-> 1, recvrc |-> MaxWkc, frame |-> FrameB(n)]
    IN  {<<good, good, good>>, <<bad, bad, bad>>, <<norecv, bad, good>>}

\* what the group-level wait leaves in the per-slave cached states: nothing
\* (the stack's wait on slave 0 touches slave 0 only), or, for a stack that
\* refreshes them, every slave OPERATIONAL or all but slave 1
FreshStates(n, read) ==
    {[refresh |-> FALSE, states |-> read],
     [refresh |-> TRUE, states |-> [i \in 1..n |-> EC_STATE_OPERATIONAL]],
     [refresh |-> TRUE, states |-> [i \in 1..n |-> IF i = 1 THEN EC_STATE_SAFE_OP ELSE EC_STATE_OPERATIONAL]]}

\* the slave states, the wait's result and its effect are varied with quiet
\* settle cycles; the settle cycles and the timeout, which the result does
\* not read, with every slave OPERATIONAL
RecoverArgs(n, Li) ==
    UNION {{[timeout_ms |-> 50, read |-> read,
             cycles |-> <<QuietCycle(Li), QuietCycle(Li), QuietCycle(Li)>>,
             rc |-> rc, fresh |-> fresh]
               : rc \in GroupStates, fresh \in FreshStates(n, read)}
            : read \in [1..n -> BusStates]}
    \cup
    {[timeout_ms |-> t, read |-> [i \in 1..n |-> EC_STATE_OPERATIONAL], cycles |-> cycles,
      rc |-> EC_STATE_OPERATIONAL,
      fresh |-> [refresh |-> FALSE, states |-> [i \in 1..n |-> EC_STATE_OPERATIONAL]]]
        : t \in {0, 50}, cycles \in SettleAnswers(Li)}

RcTryRecover ==
    \E a \in RecoverArgs(h.slavecount, GroupIbytes(h)) :
        TryRecoverWith(a.timeout_ms, a.read, a.cycles, a.rc, a.fresh)

RecoverNext ==
    \/ RcInitialize
    \/ RcTryRecover
    \/ Shutdown

SpecRecover == Init /\ [][RecoverNext]_vars

----------------------------------------------------------------------------
(* One session through the whole interface: bring-up that fails or goes    *)
(* through, every public function with valid and invalid arguments, on a  *)
(* bus that answers or fails, then teardown                                *)

\* the answers to soem_initialize: two that fail, and for every mapping a
\* probe cycle that is quiet, whose send fails or whose receive fails, with
\* OPERATIONAL reached or not
SessionProbes(n) ==
    {QuietCycle(n),
     [sendrc |-> -1, recvrc |-> -1, frame |-> FrameA(n)],
     [sendrc |-> 1, recvrc |-> -1, frame |-> FrameA(n)]}

SessionInitAnswers ==
    {InitAnswer(TRUE, FALSE, 0, FALSE, <<>>, <<0, 0>>, 0, QuietCycle(0), EC_STATE_SAFE_OP, EC_STATE_SAFE_OP),
     InitAnswer(TRUE, TRUE, 1, TRUE, <<Drive>>, <<1, 1>>, iomap_size + 1, QuietCycle(0), EC_STATE_SAFE_OP, EC_STATE_SAFE_OP)}
    \cup UNION {{InitAnswer(TRUE, TRUE, Len(shape), TRUE, shape, wkcs, MappedSize(shape), cycle, EC_STATE_SAFE_OP, opRc)
                    : wkcs \in {<<1, 1>>}, cycle \in SessionProbes(InputSize(shape)),
                      opRc \in GroupStates}
                 : shape \in AllMappings}

SsInitialize == \E a \in SessionInitAnswers : InitializeWith(a)

\* slave indices below, in and above the range 1..n
SlaveIndices(n) == 0..(n + 1)

\* the caller writes a record to slave 1, or passes an index out of range,
\* or no record
SsWriteRxpdo ==
    \E slave_index \in {0, 1, h.slavecount + 1}, in \in {Buf(MoveRx), NULLBUF} :
        WriteRxpdoWith(slave_index, in)

\* a DriveTxPDO that holds 9 in every field before the call
StaleTx == TxPDO(9)

SsReadTxpdo ==
    \E slave_index \in SlaveIndices(h.slavecount), out \in {Buf(StaleTx), NULLBUF} :
        ReadTxpdoWith(slave_index, out)

\* exchanges without caller bytes or with a short payload, on a bus that
\* answers or whose send fails
SsExchange ==
    \E out \in {[buf |-> NULLBUF, len |-> 0], [buf |-> Buf(<<170, 187, 204>>), len |-> 3]},
       ans \in {QuietCycle(GroupIbytes(h)), [sendrc |-> -1, recvrc |-> -1, frame |-> FrameA(GroupIbytes(h))]} :
        ExchangeWith(out, [buf |-> NULLBUF, len |-> 0], 500, ans)

\* the states a read of the bus finds: slave 1 in SAFE_OP with the ERROR
\* flag, the others OPERATIONAL
FaultStates(n) ==
    [i \in 1..n |-> IF i = 1 THEN BitOr(EC_STATE_SAFE_OP, EC_STATE_ERROR) ELSE EC_STATE_OPERATIONAL]

\* a recovery whose settle cycles fail, reaching OPERATIONAL or not
SsTryRecover ==
    \E rc \in GroupStates, cycles \in {s \in SettleAnswers(GroupIbytes(h)) : s[1].sendrc < 0} :
        TryRecoverWith(50, FaultStates(h.slavecount), cycles, rc,
                       [refresh |-> FALSE, states |-> FaultStates(h.slavecount)])

\* a caller array of n entries that holds position -1 in every entry
StaleEntry == [position |-> -1, vendor_id |-> 0, product_code |-> 0, revision |-> 0, name |-> <<>>]
StaleEntries(n) == [i \in 1..n |-> StaleEntry]

\* max_count from below 0 to above the slave count, the caller's array
\* holding max_count entries and one more; or no array
SsScanSlaves ==
    \/ \E max_count \in -1..(MaxSlaves + 1) :
           ScanSlavesWith(Buf(StaleEntries((IF max_count > 0 THEN max_count ELSE 0) + 1)), max_count)
    \/ ScanSlavesWith(NULLBUF, MaxSlaves)

SsGetProcessSizes ==
    \E outputs \in {Buf(-1), NULLBUF}, inputs \in {Buf(-1), NULLBUF} :
        GetProcessSizesWith(outputs, inputs)

\* the error list of the stack: no string, the empty string, a string
ErrorTexts == {NULLBUF, Buf(<<>>), Buf(<<69, 82, 82>>)}

\* the caller's buffer: absent, or of buf_sz bytes holding 255, with buf_sz
\* from 0 to above the length of the text
SsDrainErrorList ==
    \/ \E buf_sz \in {0, 2, 4}, err \in ErrorTexts :
           DrainErrorListWith(Buf([i \in 1..buf_sz |-> 255]), buf_sz, err)
    \/ DrainErrorListWith(NULLBUF, 4, Buf(<<69, 82, 82>>))

\* a soem_health_t that holds -7 in every field before the call
StaleHealth == Health(-7)

\* a health query on a bus with slave 1 in fault, AL status code 26
SsGetHealth ==
    \E out \in {Buf(StaleHealth), NULLBUF} :
        GetHealthWith(out, FaultStates(h.slavecount), [i \in 1..h.slavecount |-> IF i = 1 THEN 26 ELSE 0])

SsNullHandle == \E f \in HandleFunctions : NullHandleWith(f)

SessionNext ==
    \/ SsInitialize
    \/ SsWriteRxpdo
    \/ SsReadTxpdo
    \/ SsExchange
    \/ SsTryRecover
    \/ SsScanSlaves
    \/ GetSlaveCount
    \/ SsGetProcessSizes
    \/ SsDrainErrorList
    \/ SsGetHealth
    \/ SsNullHandle
    \/ Shutdown

SpecSession == Init /\ [][SessionNext]_vars

----------------------------------------------------------------------------
(* The PDO codec: sessions whose slaves have regions of the record size,   *)
(* one byte short of it, shorter, or none; frames with every bit of the    *)
(* input record set and cleared; records written to and read from every slave *)

\* <<Obytes, Ibytes>> of a slave one byte short of the records, and of a
\* slave without process data
Edge == <<19, 7>>
None == <<0, 0>>

\* the mappings of n slaves: drives, or drives with one other slave among them
CodecMappings(n) ==
    {[i \in 1..n |-> Drive]}
    \cup {[i \in 1..n |-> IF i = k THEN other ELSE Drive] : k \in 1..n, other \in {Short, Edge, None}}

CdInitialize ==
    \E a \in {InitAnswer(TRUE, TRUE, Len(shape), TRUE, shape, <<1, 1>>, MappedSize(shape),
                         QuietCycle(InputSize(shape)), EC_STATE_SAFE_OP, EC_STATE_OPERATIONAL)
                 : shape \in UNION {CodecMappings(n) : n \in 1..MaxSlaves}} :
        InitializeWith(a)

\* the values of a flag byte: no bit, every bit, one bit, all bits but one
FlagBytes == {0, 255} \cup {2 ^ k : k \in 0..7} \cup {255 - 2 ^ k : k \in 0..7}

\* the first four bytes of an input record: 0, a value with four different
\* bytes, -2, -1, the smallest and the largest int32_t
PositionBytes ==
    {<<0, 0, 0, 0>>, <<1, 2, 3, 4>>, <<254, 255, 255, 255>>, <<255, 255, 255, 255>>,
     <<0, 0, 0, 128>>, <<255, 255, 255, 127>>}

\* the 8 bytes of an input record: every position with no flag set, every
\* value of each flag byte and three slots with the others zero, and one
\* record with all eight bytes different
InputRecords ==
    {p \o <<0, 0, 0, 0>> : p \in PositionBytes}
    \cup {<<0, 0, 0, 0, b, 0, 0, 0>> : b \in FlagBytes}
    \cup {<<0, 0, 0, 0, 0, b, 0, 0>> : b \in FlagBytes}
    \cup {<<0, 0, 0, 0, 0, 0, b, 0>> : b \in FlagBytes}
    \cup {<<0, 0, 0, 0, 0, 0, 0, b>> : b \in {7, 128, 255}}
    \cup {<<120, 86, 52, 18, 165, 90, 195, 9>>}

\* the group's input region when every slave sends rec, cut to the length of
\* its region, the slaves at even positions with every bit inverted
RECURSIVE GroupFrame(_, _, _)
GroupFrame(ib, rec, i) ==
    IF i > Len(ib) THEN <<>>
    ELSE [k \in 1..ib[i] |-> IF i % 2 = 1 THEN rec[k] ELSE 255 - rec[k]] \o GroupFrame(ib, rec, i + 1)

\* a cycle that brings rec from the slaves
CdReceive ==
    \E rec \in InputRecords :
        ExchangeWith([buf |-> NULLBUF, len |-> 0], [buf |-> NULLBUF, len |-> 0], 500,
                     [sendrc |-> 1, recvrc |-> MaxWkc, frame |-> GroupFrame(h.Ibytes, rec, 1)])

CdWriteRxpdo == \E slave_index \in 1..h.slavecount : WriteRxpdoWith(slave_index, Buf(MoveRx))

CdReadTxpdo == \E slave_index \in 1..h.slavecount : ReadTxpdoWith(slave_index, Buf(StaleTx))

CodecNext ==
    \/ CdInitialize
    \/ CdReceive
    \/ CdWriteRxpdo
    \/ CdReadTxpdo
    \/ Shutdown

SpecCodec == Init /\ [][CodecNext]_vars

----------------------------------------------------------------------------
(* Health: sessions on groups with every expected working counter, whose   *)
(* probe cycle went through or failed; exchanges with every answer,        *)
(* recoveries and record writes in between, and health queries             *)

HlInitialize ==
    \E a \in UNION {{InitAnswer(TRUE, TRUE, Len(shape), TRUE, shape, wkcs, MappedSize(shape), cycle,
                                EC_STATE_SAFE_OP, EC_STATE_OPERATIONAL)
                        : wkcs \in GroupWkcs, cycle \in SessionProbes(InputSize(shape))}
                     : shape \in AllMappings} :
        InitializeWith(a)

HlExchange ==
    \E ans \in CycleAnswers(GroupIbytes(h)) :
        ExchangeWith([buf |-> NULLBUF, len |-> 0], [buf |-> NULLBUF, len |-> 0], 500, ans)

HlWriteRxpdo == WriteRxpdoWith(1, Buf(MoveRx))

\* a recovery whose settle cycles answer with the largest working counter,
\* or fail
HlTryRecover ==
    \E cycles \in {s \in SettleAnswers(GroupIbytes(h)) : s[1].sendrc = s[3].sendrc} :
        TryRecoverWith(50, FaultStates(h.slavecount), cycles, EC_STATE_OPERATIONAL,
                       [refresh |-> FALSE, states |-> FaultStates(h.slavecount)])

HlGetHealth ==
    \E read \in {FaultStates(h.slavecount), [i \in 1..h.slavecount |-> EC_STATE_OPERATIONAL]} :
        GetHealthWith(Buf(StaleHealth), read, [i \in 1..h.slavecount |-> 0])

HealthNext ==
    \/ HlInitialize
    \/ HlExchange
    \/ HlWriteRxpdo
    \/ HlTryRecover
    \/ HlGetHealth
    \/ Shutdown

SpecHealth == Init /\ [][HealthNext]_vars

----------------------------------------------------------------------------
(* Two sessions on two adapters, each driven by its own thread: every      *)
(* interleaving of the calls of the two, and of soem_set_log_callback      *)

\* a call on the second session that leaves hn in its handle; lv: the
\* session is live after the call
PeerCall(op, args, hn, lv, ret, calls) ==
    /\ peer' = [live |-> lv, h |-> hn]
    /\ h' = OtherAfter(2, 1, live, h, hn)
    /\ last' = [op |-> op, args |-> args, ret |-> ret, calls |-> calls, sent |-> <<>>, buf |-> NULLBUF]
    /\ UNCHANGED <<live, heap, ctxOpen, fault, log_cb>>

\* bring-up of n drives on a quiet bus
TwoInitAnswer(n) ==
    InitAnswer(TRUE, TRUE, n, TRUE, [i \in 1..n |-> Drive], <<1, 1>>, n * 28,
               QuietCycle(n * 8), EC_STATE_SAFE_OP, EC_STATE_OPERATIONAL)

\* a cycle that brings FrameB, and one whose send fails
TwoCycles(n) ==
    {[sendrc |-> 1, recvrc |-> MaxWkc - 1, frame |-> FrameB(n)],
     [sendrc |-> -1, recvrc |-> -1, frame |-> FrameB(n)]}

\* a payload for the output region
Payload == [buf |-> Buf(<<170, 187, 204>>), len |-> 3]

\* the first session has MaxSlaves drives, the second one drive
TwInitialize == InitializeWith(TwoInitAnswer(MaxSlaves))

TwWriteRxpdo == WriteRxpdoWith(1, Buf(MoveRx))

TwReadTxpdo == ReadTxpdoWith(1, Buf(StaleTx))

TwExchange ==
    \E ans \in TwoCycles(GroupIbytes(h)) :
        ExchangeWith(Payload, [buf |-> NULLBUF, len |-> 0], 500, ans)

TwTryRecover ==
    \E cycles \in {s \in SettleAnswers(GroupIbytes(h)) : s[1].sendrc < 0} :
        TryRecoverWith(50, FaultStates(h.slavecount), cycles, EC_STATE_OPERATIONAL,
                       [refresh |-> FALSE, states |-> FaultStates(h.slavecount)])

TwGetHealth ==
    GetHealthWith(Buf(StaleHealth), [i \in 1..h.slavecount |-> EC_STATE_OPERATIONAL],
                  [i \in 1..h.slavecount |-> 0])

PeerInitialize ==
    /\ ~peer.live
    /\ \E a \in {TwoInitAnswer(1)} :
       \E r \in {soem_initialize(a.callocOK, a.initOK, a.slave_count, a.mallocOK, a.shape, a.wkcs, a.actual_size, a.cycle.sendrc, a.cycle.recvrc, a.cycle.frame, a.safeRc, a.opRc)} :
           PeerCall("peer_initialize", a, r.h, r.ok, IF r.ok THEN 1 ELSE 0, r.calls)

PeerShutdown ==
    /\ peer.live
    /\ \E r \in {soem_shutdown(peer.h, 1)} :
           PeerCall("peer_shutdown", <<>>, r.h, FALSE, 0, r.calls)

PeerWriteRxpdo ==
    /\ peer.live
    /\ \E r \in {soem_write_rxpdo(peer.h, 1, Buf(MoveRx))} :
           PeerCall("peer_write_rxpdo", <<>>, r.h, TRUE, r.ret, <<>>)

PeerReadTxpdo ==
    /\ peer.live
    /\ \E r \in {soem_read_txpdo(peer.h, 1, Buf(StaleTx))} :
           PeerCall("peer_read_txpdo", <<>>, r.h, TRUE, r.ret, <<>>)

PeerExchange ==
    /\ peer.live
    /\ \E ans \in TwoCycles(GroupIbytes(peer.h)) :
       \E r \in {soem_exchange_process_data(peer.h, Payload.buf, Payload.len, NULLBUF, 0, 500, ans.sendrc, ans.recvrc, ans.frame)} :
           PeerCall("peer_exchange", <<>>, r.h, TRUE, r.ret, r.calls)

PeerTryRecover ==
    /\ peer.live
    /\ \E cycles \in {s \in SettleAnswers(GroupIbytes(peer.h)) : s[1].sendrc < 0} :
       \E r \in {soem_try_recover(peer.h, 50, FaultStates(peer.h.slavecount), cycles, EC_STATE_OPERATIONAL, [refresh |-> FALSE, states |-> FaultStates(peer.h.slavecount)])} :
           PeerCall("peer_try_recover", <<>>, r.h, TRUE, r.ret, r.calls)

PeerGetHealth ==
    /\ peer.live
    /\ \E r \in {soem_get_health(peer.h, Buf(StaleHealth), [i \in 1..peer.h.slavecount |-> EC_STATE_OPERATIONAL], [i \in 1..peer.h.slavecount |-> 0])} :
           PeerCall("peer_get_health", <<>>, r.h, TRUE, r.ret, r.calls)

TwSetLogCallback == \E cb \in BOOLEAN : SetLogCallback(cb)

TwoNext ==
    \/ TwInitialize
    \/ TwWriteRxpdo
    \/ TwReadTxpdo
    \/ TwExchange
    \/ TwTryRecover
    \/ TwGetHealth
    \/ Shutdown
    \/ PeerInitialize
    \/ PeerWriteRxpdo
    \/ PeerReadTxpdo
    \/ PeerExchange
    \/ PeerTryRecover
    \/ PeerGetHealth
    \/ PeerShutdown
    \/ TwSetLogCallback

SpecTwo == Init /\ [][TwoNext]_vars

----------------------------------------------------------------------------
(* Properties of the cyclic exchange, checked under SpecExchange *)

\* the last call was an exchange whose send succeeded (failed)
Exchanged == last.op = "exchange"
SendOk == Exchanged /\ last.args.sendrc >= 0
RecvOk == SendOk /\ last.args.recvrc >= 0

\* expected working counter of the session's group, from the group's fields
Expected == 2 * h.outputsWKC + h.inputsWKC

HasCall(f) == \E k \in DOMAIN last.calls : last.calls[k].f = f

\* C1: an exchange whose send and receive succeed with 0 < expected and
\* observed < expected returns SOEM_ERR_WKC_LOW, a negative value that is none
\* of SOEM_ERR_SEND_FAIL, SOEM_ERR_RECV_FAIL, SOEM_ERR_BAD_ARGS; with
\* observed >= expected > 0 it returns the observed working counter
C1_WkcLow ==
    RecvOk /\ Expected > 0 =>
        IF last.args.recvrc < Expected
        THEN /\ last.ret = SOEM_ERR_WKC_LOW
             /\ last.ret < 0
             /\ last.ret \notin {SOEM_ERR_SEND_FAIL, SOEM_ERR_RECV_FAIL, SOEM_ERR_BAD_ARGS}
        ELSE last.ret = last.args.recvrc

\* expected = 3 and observed = 2 gave the WKC-low code
C1_Witness == RecvOk /\ Expected = 3 /\ last.args.recvrc = 2 /\ last.ret = -10

\* C2: an exchange whose send returns a negative result returns
\* SOEM_ERR_SEND_FAIL and makes no receive
C2_SendFail ==
    Exchanged /\ last.args.sendrc < 0 =>
        /\ last.ret = SOEM_ERR_SEND_FAIL
        /\ ~HasCall("ecx_receive_processdata")
        /\ HasCall("ecx_send_processdata")

C2_Witness == Exchanged /\ last.args.sendrc < 0 /\ last.ret = -11 /\ Len(last.calls) = 1

\* C3: an exchange whose send succeeds and whose receive returns a negative
\* result returns SOEM_ERR_RECV_FAIL, whatever the expected working counter
C3_RecvFail ==
    SendOk /\ last.args.recvrc < 0 =>
        /\ last.ret = SOEM_ERR_RECV_FAIL
        /\ last.ret # SOEM_ERR_WKC_LOW
        /\ last.ret < 0

\* a receive failed on a group whose expected working counter is 0
C3_Witness == SendOk /\ last.args.recvrc < 0 /\ Expected <= 0 /\ last.ret = -12

\* C4: an exchange whose send and receive succeed on a group with
\* expected <= 0 returns the observed working counter, never a failure code
C4_Degenerate ==
    RecvOk /\ Expected <= 0 =>
        /\ last.ret = last.args.recvrc
        /\ last.ret >= 0

\* a degenerate group answered with working counter 0
C4_Witness == RecvOk /\ Expected <= 0 /\ last.args.recvrc = 0 /\ last.ret = 0

\* C5: after an exchange whose receive succeeds, with a caller input buffer
\* of length n > 0, the first min(n, group input length) bytes of the buffer
\* are the group's input region as received, the rest of the buffer is as the
\* caller passed it, whatever the working counter
C5_InputsCopied ==
    RecvOk /\ last.args.inputs.ptr /\ last.args.inputs_len > 0 =>
        LET m == Min(last.args.inputs_len, Len(h.inputs))
            before == last.args.inputs.bytes
            after == last.buf.bytes
        IN  /\ last.buf.ptr
            /\ Len(after) = Len(before)
            /\ \A i \in 1..Len(after) :
                  after[i] = IF i <= m THEN h.inputs[i] ELSE before[i]

\* a WKC-low cycle filled a caller buffer longer than the input region
C5_Witness ==
    /\ RecvOk /\ last.ret = SOEM_ERR_WKC_LOW
    /\ last.args.inputs.ptr /\ last.args.inputs_len > Len(h.inputs)
    /\ Len(h.inputs) > 0
    /\ last.buf.bytes[1] = h.inputs[1]
    /\ last.buf.bytes[1] # last.args.inputs.bytes[1]

\* C6: an exchange without caller output bytes (no buffer, or
\* outputs_len <= 0) leaves the group's output region as it was, and hands
\* exactly those bytes to ecx_send_processdata, whatever the outcome
C6_StagedWrite ==
    [][ (last'.op = "exchange" /\ (~last'.args.outputs.ptr \/ last'.args.outputs_len <= 0)) =>
            /\ h'.outputs = h.outputs
            /\ last'.sent = <<h.outputs>> ]_vars

\* a record staged by soem_write_rxpdo was sent by an exchange given a buffer of length 0
C6_Witness ==
    /\ Exchanged /\ last.args.outputs.ptr /\ last.args.outputs_len = 0
    /\ Len(last.sent) = 1 /\ Len(last.sent[1]) >= IO_RX_BYTES
    /\ SubSeq(last.sent[1], 1, 4) = <<68, 80, 79, 83>>
    /\ h.outputs = last.sent[1]

\* C7: an exchange with n > 0 caller output bytes on a group output region of
\* L > 0 bytes hands to ecx_send_processdata the first min(n, L) caller bytes
\* followed by zero bytes
C7_ZeroThenCopy ==
    Exchanged /\ last.args.outputs.ptr /\ last.args.outputs_len > 0 /\ Len(h.outputs) > 0 =>
        LET L == Len(h.outputs)
            m == Min(last.args.outputs_len, L)
        IN  /\ Len(last.sent) = 1
            /\ Len(last.sent[1]) = L
            /\ \A i \in 1..L :
                  last.sent[1][i] = IF i <= m THEN last.args.outputs.bytes[i] ELSE 0

\* a payload of 3 bytes was sent, the rest of the region zero
C7_Witness ==
    /\ Exchanged /\ last.args.outputs.ptr /\ last.args.outputs_len = 3
    /\ Len(last.sent[1]) > 3
    /\ last.sent[1][3] = 204 /\ last.sent[1][4] = 0

----------------------------------------------------------------------------
(* Properties of recovery, checked under SpecRecover *)

Recovered == last.op = "try_recover"

\* C8: soem_try_recover reports success exactly when the group-level wait
\* returned OPERATIONAL and every slave's cached state is exactly
\* OPERATIONAL; when the wait returned another state it reports failure
\* and the per-slave verification is not made
C8_RecoverTwoLevel ==
    Recovered =>
        /\ last.ret \in {0, 1}
        /\ last.ret = 1 <=>
              /\ last.args.rc = EC_STATE_OPERATIONAL
              /\ \A i \in 1..h.slavecount : h.state[i] = EC_STATE_OPERATIONAL
        /\ last.args.rc # EC_STATE_OPERATIONAL => last.ret = 0 /\ ~last.args.verified

\* the group reached OPERATIONAL, one slave is cached in SAFE_OP, the other
\* OPERATIONAL: failure
C8_Witness ==
    /\ Recovered /\ last.args.rc = EC_STATE_OPERATIONAL /\ last.ret = 0
    /\ h.slavecount = 2
    /\ h.state[1] = EC_STATE_SAFE_OP /\ h.state[2] = EC_STATE_OPERATIONAL

\* C17: the stack calls of soem_try_recover are, in this order: one
\* ecx_readstate; one ecx_writestate of SAFE_OP + ACK for each slave that
\* was read with the ERROR flag, in ascending order, and for no other
\* slave; one ecx_writestate of OPERATIONAL on slave 0; three times
\* ecx_send_processdata followed by ecx_receive_processdata with a wait of
\* 1000 us, whatever they return; one ecx_statecheck on slave 0 for
\* OPERATIONAL with the caller's timeout in us
C17_RecoverOrder ==
    Recovered =>
        LET c == last.calls
            read == last.args.read
            E == {i \in 1..h.slavecount : HasFlag(read[i], EC_STATE_ERROR)}
            k == Cardinality(E)
        IN  /\ Len(c) = k + 9
            /\ c[1].f = "ecx_readstate"
            /\ \A j \in 1..k :
                  /\ c[1 + j].f = "ecx_writestate"
                  /\ c[1 + j].slave \in E
                  /\ c[1 + j].val = EC_STATE_SAFE_OP + EC_STATE_ACK
                  /\ j > 1 => c[j].slave < c[1 + j].slave
            /\ c[k + 2].f = "ecx_writestate" /\ c[k + 2].slave = 0
            /\ c[k + 2].val = EC_STATE_OPERATIONAL
            /\ \A m \in 0..2 :
                  /\ c[k + 3 + 2 * m].f = "ecx_send_processdata"
                  /\ c[k + 4 + 2 * m].f = "ecx_receive_processdata"
                  /\ c[k + 4 + 2 * m].tmo = 1000
            /\ c[k + 9].f = "ecx_statecheck" /\ c[k + 9].slave = 0
            /\ c[k + 9].val = EC_STATE_OPERATIONAL
            /\ c[k + 9].tmo = last.args.timeout_ms * 1000
            /\ Len(last.sent) = 3

\* the first settle cycle's receive failed and the second cycle's send
\* failed: the third cycle and the wait were made all the same
C17_Witness ==
    /\ Recovered /\ Len(last.calls) = 9
    /\ last.calls[4].f = "ecx_receive_processdata" /\ last.calls[4].rc < 0
    /\ last.calls[5].f = "ecx_send_processdata" /\ last.calls[5].rc < 0
    /\ last.calls[7].f = "ecx_send_processdata" /\ last.calls[7].rc >= 0
    /\ last.calls[9].f = "ecx_statecheck"

\* the cached per-slave states the acknowledge step leaves for the states
\* read: SAFE_OP + ACK where the ERROR flag was read, the state read elsewhere
AckedStates(read) ==
    [i \in DOMAIN read |-> IF HasFlag(read[i], EC_STATE_ERROR)
                           THEN EC_STATE_SAFE_OP + EC_STATE_ACK ELSE read[i]]

\* C22: soem_try_recover makes one ecx_readstate, as its first stack call
\* and so before every write.  When the stack's state writes and its wait
\* on the group leave the per-slave cached states alone, the states that
\* are verified are those of that read with SAFE_OP + ACK in place of every
\* state read with the ERROR flag, and a call in which a slave was read
\* with the ERROR flag returns 0, also when the group-level wait returned
\* OPERATIONAL
C22_SingleRead ==
    Recovered =>
        /\ Cardinality({k \in DOMAIN last.calls : last.calls[k].f = "ecx_readstate"}) = 1
        /\ last.calls[1].f = "ecx_readstate"
        /\ last.args.acked = AckedStates(last.args.read)
        /\ ~last.args.refresh =>
              /\ h.state = AckedStates(last.args.read)
              /\ (\E i \in 1..h.slavecount : HasFlag(last.args.read[i], EC_STATE_ERROR)) => last.ret = 0

\* the second of two slaves was read in OPERATIONAL + ERROR, the first in
\* OPERATIONAL, the states were not refreshed and the group-level wait
\* returned OPERATIONAL: the call returned 0 and the second slave is
\* cached as SAFE_OP + ACK
C22_Witness ==
    /\ Recovered /\ ~last.args.refresh /\ h.slavecount = 2
    /\ last.args.read = <<EC_STATE_OPERATIONAL, EC_STATE_OPERATIONAL + EC_STATE_ERROR>>
    /\ last.args.rc = EC_STATE_OPERATIONAL /\ last.args.verified
    /\ last.ret = 0
    /\ h.state = <<EC_STATE_OPERATIONAL, EC_STATE_SAFE_OP + EC_STATE_ACK>>

----------------------------------------------------------------------------
(* Properties of bring-up, checked under SpecLifecycle *)

Initialized == last.op = "initialize"

CountCalls(f) == Cardinality({k \in DOMAIN last.calls : last.calls[k].f = f})

\* the call to f was made and returned a result in S
Answered(f, S) == \E k \in DOMAIN last.calls : last.calls[k].f = f /\ last.calls[k].rc \in S

\* the handle was allocated and a later step of soem_initialize failed
InitFailed ==
    /\ Initialized
    /\ Answered("calloc_handle", {1})
    /\ \/ Answered("ecx_init", {0})
       \/ Answered("ecx_config_init", -1..0)
       \/ Answered("malloc_IOmap", {0})
       \/ Answered("ecx_config_map_group", -1..0)
       \/ Answered("ecx_config_map_group", {iomap_size + 1})

\* C9: on every failing path of soem_initialize no handle is returned, the
\* handle is freed once, the IOmap is freed once if it was allocated, the
\* transport is closed once if it was opened, and the heap is as before
\* the call
C9_InitFailureReleases ==
    [][ InitFailed' =>
            /\ ~live' /\ last'.ret = 0
            /\ heap' = heap /\ ctxOpen' = ctxOpen /\ ~fault'
            /\ CountCalls("free_handle")' = 1
            /\ CountCalls("free_IOmap")' = (IF Answered("malloc_IOmap", {1})' THEN 1 ELSE 0)
            /\ CountCalls("ecx_close")' = (IF Answered("ecx_init", {1})' THEN 1 ELSE 0) ]_vars

\* the mapped size exceeded the allocated bound: nothing is left allocated
C9_Witness ==
    /\ InitFailed /\ Answered("ecx_config_map_group", {iomap_size + 1})
    /\ heap = {} /\ ~ctxOpen /\ ~live

\* the mapping went through: transport open, slaves found, mapped size in
\* (0, allocated bound]
InitMapped ==
    /\ Initialized
    /\ Answered("ecx_init", {1})
    /\ \E k \in DOMAIN last.calls :
          last.calls[k].f = "ecx_config_init" /\ last.calls[k].rc > 0
    /\ \E k \in DOMAIN last.calls :
          /\ last.calls[k].f = "ecx_config_map_group"
          /\ last.calls[k].rc > 0 /\ last.calls[k].rc <= iomap_size

\* C10: when the mapping went through, soem_initialize returns a live
\* session whatever the probe cycle and the two waits answer, and its last
\* two stack calls are the write of OPERATIONAL to the group and one wait
\* for OPERATIONAL on the group
C10_InitAlwaysLive ==
    InitMapped =>
        LET n == Len(last.calls)
        IN  /\ live /\ last.ret = 1
            /\ heap = {"handle", "IOmap"} /\ ctxOpen
            /\ n >= 2
            /\ last.calls[n - 1].f = "ecx_writestate"
            /\ last.calls[n - 1].slave = 0
            /\ last.calls[n - 1].val = EC_STATE_OPERATIONAL
            /\ last.calls[n].f = "ecx_statecheck"
            /\ last.calls[n].slave = 0
            /\ last.calls[n].val = EC_STATE_OPERATIONAL
            /\ Cardinality({k \in 1..n : last.calls[k].f = "ecx_statecheck"
                                          /\ last.calls[k].val = EC_STATE_OPERATIONAL}) = 1

\* the probe's send failed, neither wait reached its state: the session is live
C10_Witness ==
    /\ InitMapped /\ live
    /\ Answered("ecx_send_processdata", {-1})
    /\ last.args.safeRc # EC_STATE_SAFE_OP
    /\ last.args.opRc # EC_STATE_OPERATIONAL

----------------------------------------------------------------------------
(* Properties of the session as a whole, checked under SpecSession *)

\* the calls that release, allocate or close a resource
ResourceCalls == {"calloc_handle", "malloc_IOmap", "free_handle", "free_IOmap", "ecx_init", "ecx_close"}

\* C11: soem_shutdown on a live session sets the group state to INIT and
\* writes it, then closes the transport, then frees the process image, then
\* the handle, whatever the state write returns and whatever happened
\* before; every other call on a live session leaves the handle, the
\* process image (same block, same length) and the transport as they are
C11_ShutdownOrder ==
    [][ /\ (live /\ last'.op = "shutdown") =>
              /\ Len(last'.calls) = 4
              /\ last'.calls[1].f = "ecx_writestate"
              /\ last'.calls[1].slave = 0
              /\ last'.calls[1].val = EC_STATE_INIT
              /\ h'.state0 = EC_STATE_INIT
              /\ last'.calls[2].f = "ecx_close"
              /\ last'.calls[3].f = "free_IOmap"
              /\ last'.calls[4].f = "free_handle"
              /\ heap' = {} /\ ~ctxOpen' /\ ~fault' /\ ~live'
        /\ (live /\ last'.op # "shutdown") =>
              /\ live' /\ heap = {"handle", "IOmap"} /\ heap' = heap /\ ctxOpen /\ ctxOpen' /\ ~fault'
              /\ \A k \in DOMAIN last'.calls : last'.calls[k].f \notin ResourceCalls
              /\ Len(h'.outputs) = Len(h.outputs) /\ Len(h'.inputs) = Len(h.inputs) ]_vars

\* a session whose probe receive failed and which did not reach
\* OPERATIONAL was shut down, the INIT write failing: everything is released
C11_Witness ==
    /\ last.op = "shutdown" /\ last.args.wrc = 0
    /\ h.last_wkc = -1 /\ h.last_expected_wkc = 3
    /\ heap = {} /\ ~ctxOpen /\ ~live /\ ~fault

\* the call l, made on a session of n slaves, had an invalid argument: no
\* handle, a slave index outside 1..n, no buffer or a size <= 0
InvalidArgs(l, n) ==
    CASE l.op \in HandleFunctions -> TRUE
      [] l.op \in {"read_txpdo", "write_rxpdo"} -> l.args.slave_index <= 0 \/ l.args.slave_index > n
      [] l.op = "scan_slaves" -> ~l.args.buffer.ptr \/ l.args.max_count <= 0
      [] l.op = "drain_error_list" -> ~l.args.buf.ptr \/ l.args.buf_sz <= 0
      [] l.op = "get_process_sizes" -> ~l.args.outputs.ptr \/ ~l.args.inputs.ptr
      [] l.op = "get_health" -> ~l.args.out.ptr
      [] OTHER -> FALSE

\* what the caller passed as the buffer the call l would fill
PassedBuffer(l) ==
    CASE l.op = "read_txpdo" -> l.args.out
      [] l.op = "scan_slaves" -> l.args.buffer
      [] l.op = "drain_error_list" -> l.args.buf
      [] l.op = "get_process_sizes" -> Buf(<<l.args.outputs, l.args.inputs>>)
      [] l.op = "get_health" -> l.args.out
      [] OTHER -> NULLBUF

----------------------------------------------------------------------------
(* Properties of the PDO codec, checked under SpecCodec *)

\* C13: soem_read_txpdo on a slave whose input region is shorter than 8
\* bytes, and soem_write_rxpdo on a slave whose output region is shorter
\* than 20 bytes, return 0; the process image and the rest of the session
\* are as before, no byte of the region is read, and the caller's record is
\* not written
C13_ShortRegionFails ==
    [][ /\ (last'.op = "read_txpdo" /\ last'.args.slave_index \in 1..h.slavecount
                /\ h.Ibytes[last'.args.slave_index] < 8) =>
              /\ last'.ret = 0
              /\ h' = h
              /\ last'.args.reads = {}
              /\ last'.buf = last'.args.out
        /\ (last'.op = "write_rxpdo" /\ last'.args.slave_index \in 1..h.slavecount
                /\ h.Obytes[last'.args.slave_index] < 20) =>
              /\ last'.ret = 0
              /\ h' = h ]_vars

\* a record was written to a slave with an output region of 19 bytes next
\* to a drive: the call failed
C13_Witness ==
    /\ last.op = "write_rxpdo" /\ last.ret = 0
    /\ h.slavecount = 2
    /\ h.Obytes[last.args.slave_index] = 19

\* the byte whose bits 0..7 are the flags f[1]..f[8]
FromBits(f) == Sum([k \in 1..Len(f) |-> f[k] * 2 ^ (k - 1)])

\* C20: a successful soem_read_txpdo leaves the session and the process
\* image as they are and fills the record from the 8 bytes b of the
\* slave's input region: ActualPosition is the int32_t whose little-endian
\* bytes are b[0..3]; the flags are 0 or 1; the flags of byte 4 and of byte
\* 5, in the order of the record, are the bits 0..7 of those bytes; the six
\* flags of byte 6 are its bits 0..5, so the record is the same for every
\* value of bits 6 and 7; Slot is b[7]
C20_ReadTxpdoLayout ==
    [][ (last'.op = "read_txpdo" /\ last'.ret = 1) =>
            LET b == SubSeq(SlaveInputs(h, last'.args.slave_index), 1, 8)
                t == last'.buf.bytes
                f4 == <<t.AmplifiersEnabled, t.EndStop, t.ThermalProtection1, t.ThermalProtection2,
                        t.ForceZero, t.MotorOn, t.ClosedLoop, t.EncoderIndex>>
                f5 == <<t.EncoderValid, t.SearchingIndex, t.PositionReached, t.ErrorCompensation,
                        t.EncoderError, t.Scanning, t.LeftEndStop, t.RightEndStop>>
                f6 == <<t.ErrorLimit, t.SearchingOptimalFrequency, t.SafetyTimeout, t.ExecuteAck,
                        t.EmergencyStop, t.PositionFail>>
            IN  /\ h' = h
                /\ Len(b) = 8
                /\ LEBytes(t.ActualPosition, 4) = SubSeq(b, 1, 4)
                /\ (t.ActualPosition < 0) = (b[4] >= 128)
                /\ \A k \in 1..8 : f4[k] \in {0, 1} /\ f5[k] \in {0, 1}
                /\ \A k \in 1..6 : f6[k] \in {0, 1}
                /\ FromBits(f4) = b[5]
                /\ FromBits(f5) = b[6]
                /\ FromBits(f6) = b[7] % 64
                /\ t.Slot = b[8] ]_vars

\* byte 6 held bit 7 only: the record was decoded with none of the six
\* flags of byte 6 set
C20_Witness ==
    /\ last.op = "read_txpdo" /\ last.ret = 1
    /\ SlaveInputs(h, last.args.slave_index)[7] = 128
    /\ last.buf.bytes.ErrorLimit = 0 /\ last.buf.bytes.PositionFail = 0
    /\ last.buf.bytes.Slot = 0

----------------------------------------------------------------------------
(* Properties of the queries, checked under SpecSession *)

\* C14: soem_scan_slaves with a buffer and max_count = m > 0 on a session
\* of n slaves returns min(n, m); entry i of the buffer, for i = 1..min(n, m),
\* holds position i and the vendor, product, revision and name of slave i;
\* the entries after min(n, m) are as the caller passed them, and so is the
\* session
C14_ScanSlaves ==
    [][ (last'.op = "scan_slaves" /\ last'.args.buffer.ptr /\ last'.args.max_count > 0) =>
            LET m == last'.args.max_count
                n == h.slavecount
                before == last'.args.buffer.bytes
                after == last'.buf.bytes
            IN  /\ last'.ret = Min(n, m)
                /\ Len(after) = Len(before)
                /\ \A i \in 1..Len(after) :
                      IF i <= Min(n, m)
                      THEN /\ after[i].position = i
                           /\ after[i].vendor_id = h.ident[i].eep_man
                           /\ after[i].product_code = h.ident[i].eep_id
                           /\ after[i].revision = h.ident[i].eep_rev
                           /\ Len(after[i].name) = EC_MAXNAME + 1
                           /\ \A c \in 1..(EC_MAXNAME + 1) :
                                 after[i].name[c] = IF c <= Len(h.ident[i].name)
                                                    THEN h.ident[i].name[c] ELSE 0
                      ELSE after[i] = before[i]
                /\ h' = h /\ last'.calls = <<>> ]_vars

\* max_count = 1 on a session of two slaves: one entry, position 1, the
\* second entry of the caller's array is as before
C14_Witness ==
    /\ last.op = "scan_slaves" /\ last.args.max_count = 1 /\ h.slavecount = 2
    /\ last.ret = 1
    /\ last.buf.bytes[1].position = 1 /\ last.buf.bytes[1].vendor_id = 1001
    /\ last.buf.bytes[2].position = -1

----------------------------------------------------------------------------
(* Properties of the cached working counters, checked under SpecHealth *)

\* a send / receive cycle was made in the last call
MadeCycle == HasCall("ecx_send_processdata") \/ HasCall("ecx_receive_processdata")

\* the working counters cached on the session
Cached == <<h.last_wkc, h.last_expected_wkc>>

\* C15 as stated: every exchange call, also one whose send fails, caches
\* the expected working counter (and, when the send went through, the
\* observed one) on the session, and soem_get_health reports the cached
\* pair without making a cycle
C15_EveryExchangeCaches ==
    [][ /\ last'.op = "exchange" =>
              /\ h'.last_expected_wkc = Expected'
              /\ last'.args.sendrc >= 0 => h'.last_wkc = last'.args.recvrc
        /\ (last'.op = "get_health" /\ last'.ret = 1) =>
              /\ last'.buf.bytes.last_wkc = h.last_wkc
              /\ last'.buf.bytes.group_expected_wkc = h.last_expected_wkc
              /\ ~MadeCycle' ]_vars

\* C15, amended: soem_get_health reports the cached last_wkc and the
\* expected working counter 2 * outputsWKC + inputsWKC of the group, and
\* makes no cycle.  An exchange call whose send went through, the probe
\* of the bring-up included, caches the receive result (also a negative
\* one) and the expected working counter; an exchange call whose send
\* failed and every other call leave the cached pair as it is.  So the
\* reported expected working counter is the cached one unless no exchange
\* has got past its send, when the cached pair is <<-1, 0>>
C15_HealthReportsCached ==
    [][ /\ (last'.op = "get_health" /\ last'.ret = 1) =>
              /\ last'.buf.bytes.last_wkc = h.last_wkc
              /\ last'.buf.bytes.group_expected_wkc = Expected
              /\ ~MadeCycle'
        /\ (last'.op = "exchange" /\ last'.args.sendrc >= 0) =>
              Cached' = <<last'.args.recvrc, Expected>>
        /\ (last'.op = "exchange" /\ last'.args.sendrc < 0) => Cached' = Cached
        /\ (last'.op = "initialize" /\ live') =>
              Cached' = IF last'.args.cycle.sendrc >= 0
                        THEN <<last'.args.cycle.recvrc, Expected'>> ELSE <<-1, 0>>
        /\ (live /\ last'.op \notin {"exchange", "shutdown"}) => Cached' = Cached
        /\ live' => (h'.last_expected_wkc = Expected' \/ Cached' = <<-1, 0>>) ]_vars

\* health was queried after the receive of the most recent exchange whose
\* send went through had failed on a group expecting 3: it reports -1 and 3
C15_Witness ==
    /\ last.op = "get_health" /\ last.ret = 1
    /\ last.buf.bytes.last_wkc = -1 /\ last.buf.bytes.group_expected_wkc = 3
    /\ Cached = <<-1, 3>>

----------------------------------------------------------------------------
(* Properties of two sessions, checked under SpecTwo *)

PeerOps ==
    {"peer_initialize", "peer_shutdown", "peer_write_rxpdo", "peer_read_txpdo",
     "peer_exchange", "peer_try_recover", "peer_get_health"}

----------------------------------------------------------------------------
(* Properties of the staged outputs, checked under SpecSession *)

\* the output region of slave i in the image of a group mapped as in hd
RegionOf(image, hd, i) == SubSeq(image, OutOffset(hd, i) + 1, OutOffset(hd, i) + hd.Obytes[i])

\* a region of n bytes that holds 'N', 'O', 'P', 0 and zero bytes after
NopRegion(n) == [k \in 1..n |-> CASE k = 1 -> 78 [] k = 2 -> 79 [] k = 3 -> 80 [] OTHER -> 0]

\* the index of the first call to f in the calls of the last call, 0 if none
FirstCall(f) ==
    IF HasCall(f) THEN CHOOSE k \in DOMAIN last.calls :
                           /\ last.calls[k].f = f
                           /\ \A j \in 1..(k - 1) : last.calls[j].f # f
    ELSE 0

\* the calls by which the caller puts bytes of its own in the output region
CallerWrite(l) ==
    \/ l.op = "write_rxpdo" /\ l.ret = 1
    \/ l.op = "exchange" /\ l.args.outputs.ptr /\ l.args.outputs_len > 0

\* every region of at least 20 bytes holds the NOP record, every shorter
\* region zero bytes
StagedImage(image, hd) ==
    /\ Len(image) = GroupObytes(hd)
    /\ \A i \in 1..hd.slavecount :
          RegionOf(image, hd, i) = IF hd.Obytes[i] >= IO_RX_BYTES THEN NopRegion(hd.Obytes[i])
                                   ELSE Zeros(hd.Obytes[i])

\* C18 as stated: in the frame of the first cycle of a bring-up that goes
\* through, the output region of every slave holds the NOP record
C18_EverySlaveNop ==
    (Initialized /\ live) =>
        /\ Len(last.sent) = 1
        /\ \A i \in 1..h.slavecount :
              RegionOf(last.sent[1], h, i) = NopRegion(h.Obytes[i])

\* C18, amended: in a bring-up that goes through, the frame of the first
\* cycle holds the NOP record ('N', 'O', 'P', 0, every other byte zero) in
\* the output region of every slave whose region has at least 20 bytes and
\* zero bytes in every shorter region; that cycle comes before the write
\* of OPERATIONAL; and until the caller writes a record or passes output
\* bytes, the image stays so and every frame sent is that image
C18_NopStaged ==
    [][ /\ (last'.op = "initialize" /\ live') =>
              /\ Len(last'.sent) = 1
              /\ StagedImage(last'.sent[1], h')
              /\ StagedImage(h'.outputs, h')
              /\ FirstCall("ecx_send_processdata")' > 0
              /\ \A k \in DOMAIN last'.calls :
                    last'.calls[k].f = "ecx_writestate" =>
                        /\ k > FirstCall("ecx_send_processdata")'
                        /\ last'.calls[k].val = EC_STATE_OPERATIONAL
              /\ \E k \in DOMAIN last'.calls : last'.calls[k].f = "ecx_writestate"
        /\ (live /\ StagedImage(h.outputs, h) /\ ~CallerWrite(last') /\ last'.op # "shutdown") =>
              /\ StagedImage(h'.outputs, h')
              /\ \A k \in DOMAIN last'.sent : StagedImage(last'.sent[k], h') ]_vars

\* a bring-up of a slave with 16 output bytes followed by a drive went
\* through, the probe's send failing: the first region was sent as zero
\* bytes, the second as NOP
C18_Witness ==
    /\ Initialized /\ live /\ h.slavecount = 2
    /\ h.Obytes = <<16, 20>>
    /\ Answered("ecx_send_processdata", {-1})
    /\ RegionOf(last.sent[1], h, 1) = Zeros(16)
    /\ SubSeq(RegionOf(last.sent[1], h, 2), 1, 4) = <<78, 79, 80, 0>>
    /\ RegionOf(last.sent[1], h, 2)[17] = 0

----------------------------------------------------------------------------
(* Properties of the record write, checked under SpecExchange *)

\* the unsigned 16-bit value of two little-endian bytes
UInt16LE(b) == b[1] + 256 * b[2]

\* C19: a soem_write_rxpdo that returns 1 for slave i leaves in bytes 0..16
\* of slave i's output region the command's first four bytes, the parameter
\* and the velocity as 32-bit and the ramps as 16-bit little-endian values
\* and the Execute byte, and changes no other byte of the output image
\* (bytes 17.. of the region and the regions of the other slaves), no
\* input byte, no cached WKC and nothing else of the session
C19_WriteFrame ==
    [][ (last'.op = "write_rxpdo" /\ last'.ret = 1) =>
            LET i == last'.args.slave_index
                in == last'.args.in.bytes
                off == OutOffset(h, i)
                out == h'.outputs
            IN  /\ Len(out) = Len(h.outputs)
                /\ \A k \in 1..Len(out) : (k <= off \/ k > off + 17) => out[k] = h.outputs[k]
                /\ SubSeq(out, off + 1, off + 4) = SubSeq(in.Command, 1, 4)
                /\ Int32LE(SubSeq(out, off + 5, off + 8)) = in.Parameter
                /\ Int32LE(SubSeq(out, off + 9, off + 12)) = in.Velocity
                /\ UInt16LE(SubSeq(out, off + 13, off + 14)) = in.Acceleration
                /\ UInt16LE(SubSeq(out, off + 15, off + 16)) = in.Deceleration
                /\ out[off + 17] = in.Execute
                /\ h'.inputs = h.inputs
                /\ h'.last_wkc = h.last_wkc
                /\ h'.last_expected_wkc = h.last_expected_wkc
                /\ [h' EXCEPT !.outputs = h.outputs] = h ]_vars

\* a record was written to the second of two slaves after an exchange had
\* filled the image with 255: the padding of the second region and the
\* whole first region still hold 255
C19_Witness ==
    /\ live /\ last.op = "write_rxpdo" /\ last.ret = 1
    /\ last.args.slave_index = 2 /\ h.slavecount = 2
    /\ SubSeq(SlaveOutputs(h, 2), 1, 4) = <<68, 80, 79, 83>>
    /\ SlaveOutputs(h, 2)[17] = 1
    /\ \A k \in 18..h.Obytes[2] : SlaveOutputs(h, 2)[k] = 255
    /\ h.Obytes[2] >= 20
    /\ \A k \in 1..h.Obytes[1] : SlaveOutputs(h, 1)[k] = 255

----------------------------------------------------------------------------
(* The log sink: a callback is registered or removed, sessions are brought *)
(* up on groups with every expected working counter, and exchanged         *)

LgSetLogCallback == \E cb \in BOOLEAN : SetLogCallback(cb)

LgInitialize == \E a \in GoodInitAnswers : InitializeWith(a)

LgExchange ==
    \E in \in InputArgs(GroupIbytes(h)), ans \in CycleAnswers(GroupIbytes(h)) :
        ExchangeWith([buf |-> NULLBUF, len |-> 0], in, 500, ans)

LogNext ==
    \/ LgSetLogCallback
    \/ LgInitialize
    \/ LgExchange
    \/ Shutdown

SpecLog == Init /\ [][LogNext]_vars

\* the messages the registered callback received during the last call, when
\* that call was an exchange
Delivered ==
    IF Exchanged THEN log_message(log_cb, ExchangeLog(Expected, last.args.sendrc, last.args.recvrc))
    ELSE <<>>

DegenerateWarning == "LOGW Expected WKC (check mapping)"

Warned == \E k \in DOMAIN Delivered : Delivered[k] = DegenerateWarning

\* C21: on a session whose expected working counter is <= 0, an exchange
\* call that follows an exchange call in which the degenerate-configuration
\* warning reached the callback delivers no second warning
C21_WarnedOnce ==
    [][ (live /\ Expected <= 0 /\ Exchanged /\ Warned /\ last'.op = "exchange") => ~Warned' ]_vars

----------------------------------------------------------------------------
(* The two variants side by side: a session is brought up, records are     *)
(* staged, and the functions the variants share are called in both         *)

LvInitialize == \E a \in GoodInitAnswers : InitializeWith(a)

LvWriteRxpdo == \E slave_index \in 1..h.slavecount : WriteRxpdoWith(slave_index, Buf(MoveRx))

\* the answers to a cycle: a failed send, a failed receive, a frame with
\* each working counter
LegacyCycles(n) == {c \in CycleAnswers(n) : c.frame = FrameA(n)}

LvExchange ==
    \E a \in ExchangeArgs(GroupObytes(h), GroupIbytes(h)), ans \in LegacyCycles(GroupIbytes(h)) :
        BothExchangeWith(a.out, a.in, a.timeout_us, ans)

LvScanSlaves ==
    \/ \E max_count \in -1..(MaxSlaves + 1) :
           BothScanSlavesWith(Buf(StaleEntries((IF max_count > 0 THEN max_count ELSE 0) + 1)), max_count)
    \/ BothScanSlavesWith(NULLBUF, MaxSlaves)

LvGetProcessSizes ==
    \E outputs \in {Buf(-1), NULLBUF}, inputs \in {Buf(-1), NULLBUF} :
        BothGetProcessSizesWith(outputs, inputs)

\* the functions of the legacy variant
LegacyFunctions ==
    {"soem_shutdown", "soem_get_slave_count", "soem_get_process_sizes", "soem_scan_slaves",
     "soem_exchange_process_data"}

LvNullHandle == \E f \in LegacyFunctions : BothNullHandleWith(f)

LegacyNext ==
    \/ LvInitialize
    \/ LvWriteRxpdo
    \/ LvExchange
    \/ LvScanSlaves
    \/ BothGetSlaveCount
    \/ LvGetProcessSizes
    \/ LvNullHandle
    \/ Shutdown

SpecLegacy == Init /\ [][LegacyNext]_vars

\* the caller passes no output bytes, or at least as many as the group's
\* output region has
NoneOrFull(l, L) == ~l.args.outputs.ptr \/ l.args.outputs_len <= 0 \/ l.args.outputs_len >= L

\* the three queries the variants have in common
CommonQueries == {"scan_slaves", "get_slave_count", "get_process_sizes"}

\* C23: an exchange call on a live session whose send and receive succeed
\* with observed WKC >= expected > 0, the caller passing no output bytes
\* or at least the length of the group's output region, has in the legacy
\* variant the return value, the output region sent and the caller's input
\* buffer it has in the extended variant; soem_scan_slaves,
\* soem_get_slave_count and soem_get_process_sizes return the same and
\* write the same in both variants, with and without a handle
C23_LegacySubset ==
    /\ (RecvOk /\ Expected > 0 /\ last.args.recvrc >= Expected /\ NoneOrFull(last, GroupObytes(h))) =>
          /\ last.args.legacy.ret = last.ret
          /\ last.args.legacy.sent = last.sent
          /\ last.args.legacy.buf = last.buf
    /\ last.op \in CommonQueries =>
          /\ last.args.legacy.ret = last.ret
          /\ last.args.legacy.buf = last.buf
    /\ last.op \in {"soem_scan_slaves", "soem_get_slave_count", "soem_get_process_sizes"} =>
          last.args.legacy.ret = last.ret

\* an exchange with more caller bytes than the region has, on a group that
\* expects 3 and answers 3: both variants sent the region filled with 255
\* and returned 3
C23_Witness ==
    /\ RecvOk /\ Expected = 3 /\ last.ret = 3
    /\ last.args.outputs.ptr /\ last.args.outputs_len = GroupObytes(h) + 2
    /\ last.sent = <<[i \in 1..GroupObytes(h) |-> 255]>>
    /\ last.args.legacy.sent = last.sent
    /\ last.args.legacy.ret = 3

----------------------------------------------------------------------------
(* Diagnostics: a session is brought up, exchanged and written to, and its *)
(* health is read on a bus that reports every combination of slave states  *)

DgInitialize == \E a \in {g \in GoodInitAnswers : g.wkcs = <<1, 1>>} : InitializeWith(a)

DgExchange ==
    \E ans \in LegacyCycles(GroupIbytes(h)) :
        ExchangeWith([buf |-> NULLBUF, len |-> 0], [buf |-> NULLBUF, len |-> 0], 500, ans)

DgWriteRxpdo == WriteRxpdoWith(h.slavecount, Buf(MoveRx))

\* the AL status codes read with the states: none, or 26 on slave 1
DiagCodes(n) == {[i \in 1..n |-> 0], [i \in 1..n |-> IF i = 1 THEN 26 ELSE 0]}

DgGetHealth ==
    \/ \E read \in [1..h.slavecount -> BusStates], al \in DiagCodes(h.slavecount) :
           GetHealthWith(Buf(StaleHealth), read, al)
    \/ GetHealthWith(NULLBUF, FaultStates(h.slavecount), [i \in 1..h.slavecount |-> 0])

DiagNext ==
    \/ DgInitialize
    \/ DgExchange
    \/ DgWriteRxpdo
    \/ DgGetHealth
    \/ Shutdown

SpecDiag == Init /\ [][DiagNext]_vars

\* C24: a soem_get_health call makes no stack call but one ecx_readstate
\* (none when it returns 0), so no state write and no cycle; it leaves the
\* output and input regions, the mapping, the cached sizes, the cached
\* working counters and the resources of the session as they are, the
\* cached slave states and AL status codes being all it changes; the
\* slaves_op it reports is the number of slaves read in exactly
\* OPERATIONAL, between 0 and slaves_found, a slave read with the ERROR
\* flag not being counted
C24_HealthReadOnly ==
    [][ last'.op = "get_health" =>
          /\ Len(last'.calls) = IF last'.ret = 1 THEN 1 ELSE 0
          /\ \A k \in DOMAIN last'.calls : last'.calls[k].f = "ecx_readstate"
          /\ last'.sent = <<>>
          /\ h'.outputs = h.outputs /\ h'.inputs = h.inputs
          /\ h'.output_length = h.output_length /\ h'.input_length = h.input_length
          /\ h'.last_wkc = h.last_wkc /\ h'.last_expected_wkc = h.last_expected_wkc
          /\ [h' EXCEPT !.state = h.state, !.state0 = h.state0, !.ALstatuscode = h.ALstatuscode] = h
          /\ <<live', heap', ctxOpen', fault'>> = <<live, heap, ctxOpen, fault>>
          /\ last'.ret = 0 => h' = h /\ last'.buf = last'.args.out
          /\ last'.ret = 1 =>
                LET o == last'.buf.bytes
                    read == last'.args.read
                IN  /\ o.slaves_found = h.slavecount
                    /\ 0 <= o.slaves_op /\ o.slaves_op <= o.slaves_found
                    /\ o.slaves_op = Cardinality({i \in 1..h.slavecount : read[i] = EC_STATE_OPERATIONAL})
                    /\ o.slaves_op <= Cardinality({i \in 1..h.slavecount : ~HasFlag(read[i], EC_STATE_ERROR)}) ]_vars

\* health was read on a session with a cached working counter and a staged
\* move record, the first of two slaves being in OPERATIONAL with the ERROR
\* flag and the second in OPERATIONAL: one slave is reported operational
C24_Witness ==
    /\ last.op = "get_health" /\ last.ret = 1 /\ h.slavecount = 2
    /\ last.args.read = <<EC_STATE_OPERATIONAL + EC_STATE_ERROR, EC_STATE_OPERATIONAL>>
    /\ last.buf.bytes.slaves_op = 1 /\ last.buf.bytes.slaves_found = 2
    /\ h.last_wkc = MaxWkc
    /\ SlaveOutputs(h, 2)[17] = 1
    /\ Len(last.calls) = 1

====
